---- MODULE Spec2Model ----
(***************************************************************************)
(* A model of bake: the shell lexer, parser and continuation-passing       *)
(* evaluator (shell.ts) and the task orchestrator built on it (bin/bake).  *)
(*                                                                         *)
(* A JavaScript string is a sequence of one-character strings, so that     *)
(* splitting, scanning and concatenation are computed as the code does.    *)
(* An exit code is an integer; the JavaScript values null, NaN and "no     *)
(* value yet" are encoded as negative integers no process can exit with.   *)
(*                                                                         *)
(* Spec runs the program, FairSpec with the fairness of its event loop.    *)
(* ShellSpec, MatchSpec and MuxSpec run one part                           *)
(* of it alone on inputs drawn from bounded sets: the lexer and the        *)
(* parser, matchTaskName, and the PrefixTransformStream of util.ts.        *)
(***************************************************************************)
EXTENDS Integers, Sequences, FiniteSets, TLC

\* ------------------------------------------------------------------ values

EOF == ""

null == 0 - 1
NaN == 0 - 2
Pending == 0 - 3

Lower == {"a","b","c","d","e","f","g","h","i","j","k","l","m",
          "n","o","p","q","r","s","t","u","v","w","x","y","z"}
Upper == {"A","B","C","D","E","F","G","H","I","J","K","L","M",
          "N","O","P","Q","R","S","T","U","V","W","X","Y","Z"}
Digits == {"0","1","2","3","4","5","6","7","8","9"}

DigitVal(ch) ==
  CASE ch = "0" -> 0 [] ch = "1" -> 1 [] ch = "2" -> 2 [] ch = "3" -> 3
    [] ch = "4" -> 4 [] ch = "5" -> 5 [] ch = "6" -> 6 [] ch = "7" -> 7
    [] ch = "8" -> 8 [] ch = "9" -> 9

\* const x = v, followed by the code F that reads x
With(v, F(_)) == CHOOSE r \in {F(x) : x \in {v}} : TRUE

\* ------------------------------------------------------------------ lexer

\* A lexer is [text, textOffset, charBuffer].
ShellLexer(text) == [text |-> text, textOffset |-> 0, charBuffer |-> <<>>]

\* readChar that moves the offset on even at the end of the text
readCharPastEnd(L) ==
  IF L.textOffset < Len(L.text)
  THEN [ch |-> L.text[L.textOffset + 1], L |-> [L EXCEPT !.textOffset = @ + 1]]
  ELSE [ch |-> EOF, L |-> [L EXCEPT !.textOffset = @ + 1]]

readChar(L) ==
  IF L.textOffset < Len(L.text)
  THEN [ch |-> L.text[L.textOffset + 1], L |-> [L EXCEPT !.textOffset = @ + 1]]
  ELSE [ch |-> EOF, L |-> L]

getChar(L) ==
  IF Len(L.charBuffer) > 0
  THEN [ch |-> Head(L.charBuffer), L |-> [L EXCEPT !.charBuffer = Tail(@)]]
  ELSE readChar(L)

\* peekChar(offset = 1): every call site uses the default offset.
peekChar(L) ==
  IF Len(L.charBuffer) >= 1
  THEN [ch |-> L.charBuffer[1], L |-> L]
  ELSE With(readChar(L), LAMBDA r :
         IF r.ch = EOF
         THEN [ch |-> EOF, L |-> r.L]
         ELSE [ch |-> r.ch, L |-> [r.L EXCEPT !.charBuffer = Append(@, r.ch)]])

ShellToken(type, value, L) == [type |-> type, value |-> value, L |-> L, err |-> ""]
LexError(L) == [type |-> "LexError", value |-> <<>>, L |-> L, err |-> "LexError"]

\* expectChar(expected) followed by the return of a token of the given type
expectChar(L, expected, type) ==
  With(peekChar(L), LAMBDA p :
    IF p.ch # expected THEN LexError(p.L)
    ELSE ShellToken(type, <<>>, getChar(p.L).L))

\* the loop that reads the rest of a variable name: /[a-z0-9]/i
RECURSIVE lexName(_, _)
lexName(L, name) ==
  With(peekChar(L), LAMBDA p :
    IF p.ch \notin (Lower \cup Upper \cup Digits)
    THEN ShellToken("Dollar", name, p.L)
    ELSE lexName(getChar(p.L).L, Append(name, p.ch)))

\* the loop that reads the rest of a run of text: stops at /[$\t\r\n&| '"]/
RECURSIVE lexText(_, _)
lexText(L, text) ==
  With(peekChar(L), LAMBDA p :
    IF p.ch = EOF \/ p.ch \in {"$", "\t", "\r", "\n", "&", "|", " ", "'", "\""}
    THEN ShellToken("Identifier", text, p.L)
    ELSE lexText(getChar(p.L).L, Append(text, p.ch)))

\* unescape() of a one-character string: there is no %XX sequence to decode
unescape(ch) == <<ch>>

\* the first character of a variable name, after the '$' was read
lexDollar(L) ==
  With(peekChar(L), LAMBDA q :
    IF q.ch \notin (Lower \cup Upper \cup {"_"})
    THEN LexError(q.L)
    ELSE lexName(getChar(q.L).L, <<q.ch>>))

\* the switch on the character c0 peeked, L being the lexer after the peek
RECURSIVE lexLoop(_, _, _)
lexChar(ch, L, escaping, afterBlank) ==
  IF ch = EOF
  THEN IF escaping THEN LexError(L) ELSE ShellToken("EndOfFile", <<>>, L)
  ELSE IF ch = "\\"
  THEN lexLoop(getChar(L).L, TRUE, afterBlank)
  ELSE IF ch \in {"\t", "\r", " "} \/ (ch = "\n" /\ escaping)
  THEN lexLoop(getChar(L).L, escaping, TRUE)
  ELSE IF ch = "\n"
  THEN ShellToken("NewLine", <<>>, getChar(L).L)
  ELSE IF afterBlank
  THEN ShellToken("Blank", <<>>, L)
  ELSE IF ~escaping /\ ch = "$"
  THEN lexDollar(getChar(L).L)
  ELSE IF ch = "&"
  THEN expectChar(getChar(L).L, "&", "AmpAmp")
  ELSE IF ch = "|"
  THEN expectChar(getChar(L).L, "|", "VBarVBar")
  ELSE lexText(getChar(L).L,
               (IF escaping THEN unescape(ch) ELSE <<>>) \o <<ch>>)

lexLoop(L0, escaping, afterBlank) ==
  With(peekChar(L0), LAMBDA p : lexChar(p.ch, p.L, escaping, afterBlank))

lex(L) == lexLoop(L, FALSE, FALSE)

\* ----------------------------------------------------------------- parser

\* A parser is [lexer, tokenBuffer]; a token in the buffer is [type, value].
\* Every parsing operator returns [val, P, err]: err is "" or the class of
\* the exception thrown ("LexError" or "ParseError"), which aborts parsing.
ShellParser(lexer) == [lexer |-> lexer, tokenBuffer |-> <<>>]

NoToken == [type |-> "None", value |-> <<>>]

getToken(P) ==
  IF Len(P.tokenBuffer) > 0
  THEN [val |-> Head(P.tokenBuffer), P |-> [P EXCEPT !.tokenBuffer = Tail(@)],
        err |-> ""]
  ELSE With(lex(P.lexer), LAMBDA t :
         [val |-> [type |-> t.type, value |-> t.value],
          P |-> [P EXCEPT !.lexer = t.L], err |-> t.err])

\* peekToken(offset = 1): every call site uses the default offset.
peekToken(P) ==
  IF Len(P.tokenBuffer) >= 1
  THEN [val |-> P.tokenBuffer[1], P |-> P, err |-> ""]
  ELSE With(lex(P.lexer), LAMBDA t :
         IF t.err # ""
         THEN [val |-> NoToken, P |-> [P EXCEPT !.lexer = t.L], err |-> t.err]
         ELSE [val |-> [type |-> t.type, value |-> t.value],
               P |-> [P EXCEPT !.lexer = t.L,
                               !.tokenBuffer = Append(@, [type |-> t.type,
                                                          value |-> t.value])],
               err |-> ""])

expectToken(P, expectedType) ==
  With(getToken(P), LAMBDA g :
    IF g.err # "" THEN g
    ELSE IF g.val.type # expectedType THEN [g EXCEPT !.err = "ParseError"]
    ELSE g)

RefExpr(name) == [type |-> "RefExpr", name |-> name]
TextExpr(text) == [type |-> "TextExpr", text |-> text]

\* parseExpr that takes an Identifier for the name of a variable
parseExprAsRef(P) ==
  With(getToken(P), LAMBDA g :
    IF g.err # "" THEN g
    ELSE IF g.val.type \in {"Dollar", "Identifier"}
    THEN [val |-> RefExpr(g.val.value), P |-> g.P, err |-> ""]
    ELSE [g EXCEPT !.err = "ParseError"])

parseExpr(P) ==
  With(getToken(P), LAMBDA g :
    IF g.err # "" THEN g
    ELSE IF g.val.type = "Dollar"
    THEN [val |-> RefExpr(g.val.value), P |-> g.P, err |-> ""]
    ELSE IF g.val.type = "Identifier"
    THEN [val |-> TextExpr(g.val.value), P |-> g.P, err |-> ""]
    ELSE [g EXCEPT !.err = "ParseError"])

getPrecedence(type) == 1

isBinaryOperator(tokenType) == tokenType \in {"VBarVBar", "AmpAmp"}

\* operators that associate to the right
isRightAssocAlways(tokenType) == TRUE

isRightAssoc(tokenType) == FALSE

operatorToExprType(tokenType) ==
  IF tokenType = "AmpAmp" THEN "AndCommand" ELSE "OrCommand"

\* an Arg that ends after its first expression
parseArgSingle(P, elements) ==
  With(parseExpr(P), LAMBDA e :
    IF e.err # "" THEN e
    ELSE [val |-> Append(elements, e.val), P |-> e.P, err |-> ""])

RECURSIVE parseArgLoop(_, _)
parseArgLoop(P, elements) ==
  With(peekToken(P), LAMBDA t0 :
    IF t0.err # "" THEN t0
    ELSE IF \/ isBinaryOperator(t0.val.type)
            \/ t0.val.type \in {"Blank", "CloseParen", "NewLine", "EndOfFile"}
    THEN [val |-> elements, P |-> t0.P, err |-> ""]
    ELSE With(parseExpr(t0.P), LAMBDA e :
           IF e.err # "" THEN e
           ELSE parseArgLoop(e.P, Append(elements, e.val))))

parseArg(P) == parseArgLoop(P, <<>>)

SpawnCommand(args) == [type |-> "SpawnCommand", args |-> args]
BinaryCommand(type, left, right) == [type |-> type, left |-> left, right |-> right]
AndCommand(left, right) == BinaryCommand("AndCommand", left, right)
OrCommand(left, right) == BinaryCommand("OrCommand", left, right)
NotCommand(command) == [type |-> "NotCommand", command |-> command]

RECURSIVE parsePrimitiveLoop(_, _)
parsePrimitiveLoop(P, args) ==
  With(peekToken(P), LAMBDA t0 :
    IF t0.err # "" THEN t0
    ELSE IF \/ isBinaryOperator(t0.val.type)
            \/ t0.val.type \in {"EndOfFile", "NewLine", "CloseParen"}
    THEN [val |-> SpawnCommand(args), P |-> t0.P, err |-> ""]
    ELSE With(parseArg(t0.P), LAMBDA a :
           IF a.err # "" THEN a
           ELSE With(peekToken(a.P), LAMBDA t1 :
                  IF t1.err # "" THEN t1
                  \* the code tests t0, not t1, for a binary operator here
                  ELSE IF \/ isBinaryOperator(t0.val.type)
                          \/ t1.val.type \in {"EndOfFile", "NewLine", "CloseParen"}
                  THEN [val |-> SpawnCommand(Append(args, a.val)), P |-> t1.P,
                        err |-> ""]
                  ELSE With(expectToken(t1.P, "Blank"), LAMBDA b :
                         IF b.err # "" THEN b
                         ELSE parsePrimitiveLoop(b.P, Append(args, a.val))))))

parseCommandPrimitive(P) == parsePrimitiveLoop(P, <<>>)

RECURSIVE parseCommandOperators(_, _, _)
RECURSIVE parseOperatorsInner(_, _, _)

\* the nested loop: folds operators that bind tighter than fixedPrecedence
\* into rhs; returns rhs with the parser positioned at the next lookahead
parseOperatorsInner(P, rhs, fixedPrecedence) ==
  With(peekToken(P), LAMBDA la :
    IF la.err # "" THEN la
    ELSE IF ~isBinaryOperator(la.val.type)
    THEN [val |-> rhs, P |-> la.P, err |-> ""]
    ELSE IF \/ getPrecedence(la.val.type) < fixedPrecedence
            \/ (getPrecedence(la.val.type) = fixedPrecedence
                  /\ ~isRightAssoc(la.val.type))
    THEN [val |-> rhs, P |-> la.P, err |-> ""]
    ELSE With(parseCommandOperators(la.P, rhs, getPrecedence(la.val.type)),
              LAMBDA r :
                IF r.err # "" THEN r
                ELSE parseOperatorsInner(r.P, r.val, fixedPrecedence)))

\* the body of the outer loop once the operator was read: pk is the token
\* peeked after it
parseRightOperand(pk, lhs, operator, minPrecedence) ==
  IF pk.err # "" THEN pk
  ELSE With(parseCommandPrimitive(IF pk.val.type = "Blank"
                                  THEN getToken(pk.P).P ELSE pk.P),
            LAMBDA rhs0 :
    IF rhs0.err # "" THEN rhs0
    ELSE With(parseOperatorsInner(rhs0.P, rhs0.val, getPrecedence(operator.type)),
              LAMBDA rhs :
      IF rhs.err # "" THEN rhs
      ELSE parseCommandOperators(rhs.P,
             BinaryCommand(operatorToExprType(operator.type), lhs, rhs.val),
             minPrecedence)))

parseCommandOperators(P, lhs, minPrecedence) ==
  With(peekToken(P), LAMBDA lookahead :
    IF lookahead.err # "" THEN lookahead
    ELSE IF ~isBinaryOperator(lookahead.val.type)
    THEN [val |-> lhs, P |-> lookahead.P, err |-> ""]
    ELSE IF getPrecedence(lookahead.val.type) < minPrecedence
    THEN [val |-> lhs, P |-> lookahead.P, err |-> ""]
    ELSE parseRightOperand(peekToken(getToken(lookahead.P).P), lhs,
                           lookahead.val, minPrecedence))

parseCommandInternal(P) ==
  With(parseCommandPrimitive(P), LAMBDA prim :
    IF prim.err # "" THEN prim
    ELSE parseCommandOperators(prim.P, prim.val, 0))

parseCommand(P) ==
  With(parseCommandInternal(P), LAMBDA command :
    IF command.err # "" THEN command
    ELSE With(expectToken(command.P, "EndOfFile"), LAMBDA e :
           IF e.err # "" THEN e
           ELSE [val |-> command.val, P |-> e.P, err |-> ""]))

\* parseShellCommand(input): [val, err]
parseShellCommand(input) ==
  With(parseCommand(ShellParser(ShellLexer(input))), LAMBDA r :
    [val |-> r.val, err |-> r.err])


\* -------------------------------------------------------- evaluator: values

StringExpr(text) == [type |-> "StringExpr", text |-> text]
TemplateStringExpr(elements) == [type |-> "TemplateStringExpr", elements |-> elements]

shouldHoist(expr) == expr.type \notin {"StringExpr", "TemplateStringExpr"}

\* String.prototype.split(' ')
RECURSIVE split(_, _)
split(str, sep) ==
  IF \A i \in 1..Len(str) : str[i] # sep
  THEN <<str>>
  ELSE LET i == CHOOSE i \in 1..Len(str) :
                  str[i] = sep /\ \A j \in 1..(i - 1) : str[j] # sep
       IN <<SubSeq(str, 1, i - 1)>> \o split(SubSeq(str, i + 1, Len(str)), sep)

\* the values this.env[name] can have besides a string: undefined, and a
\* function, written so that neither equals a string of one-character strings
undefined == <<"undefined">>
Function == <<"function">>

\* the members of Object.prototype that the model names; process.env, the
\* default env of a session, inherits them
ObjectPrototype == {<<"v", "a", "l", "u", "e", "O", "f">>}

\* this.env[name]: an own property, else an inherited one, else undefined
getProperty(env, name) ==
  IF name \in DOMAIN env THEN env[name]
  ELSE IF name \in ObjectPrototype THEN Function
  ELSE undefined

\* evalShellExpr(expr) with this.env = env: [val, err]
RECURSIVE evalShellExpr(_, _)
RECURSIVE evalElements(_, _, _)
evalElements(elements, env, out) ==
  IF elements = <<>> THEN [val |-> out, err |-> ""]
  ELSE With(evalShellExpr(Head(elements), env), LAMBDA r :
         IF r.err # "" THEN r
         ELSE evalElements(Tail(elements), env, out \o r.val))

evalShellExpr(expr, env) ==
  IF expr.type = "TextExpr" THEN [val |-> expr.text, err |-> ""]
  ELSE IF expr.type = "RefExpr"
  THEN With(getProperty(env, expr.name), LAMBDA value :
         [val |-> IF value = undefined THEN <<>> ELSE value, err |-> ""])
  ELSE IF expr.type = "TemplateStringExpr"
  THEN evalElements(expr.elements, env, <<>>)
  ELSE [val |-> <<>>, err |-> "Error"]

\* what one expression of an Arg pushes onto argv
pushExpr(argv, expr, result) ==
  IF shouldHoist(expr) THEN argv \o split(result, " ") ELSE Append(argv, result)

\* result.split(' ') throws a TypeError when result is not a string
splitThrows(expr, result) == shouldHoist(expr) /\ result = Function

\* the two nested loops that populate argv: [val, err]
RECURSIVE evalArg(_, _, _)
evalArg(arg, env, argv) ==
  IF arg = <<>> THEN [val |-> argv, err |-> ""]
  ELSE With(evalShellExpr(Head(arg), env), LAMBDA r :
         IF r.err # "" THEN r
         ELSE IF splitThrows(Head(arg), r.val)
         THEN [val |-> argv, err |-> "TypeError"]
         ELSE evalArg(Tail(arg), env, pushExpr(argv, Head(arg), r.val)))

RECURSIVE evalArgs(_, _, _)
evalArgs(args, env, argv) ==
  IF args = <<>> THEN [val |-> argv, err |-> ""]
  ELSE With(evalArg(Head(args), env, argv), LAMBDA r :
         IF r.err # "" THEN r
         ELSE evalArgs(Tail(args), env, r.val))

\* Number(str) for a string of the model's alphabet: the empty string is 0,
\* a run of decimal digits is its value, anything else is NaN
RECURSIVE DecimalValue(_, _)
DecimalValue(str, acc) ==
  IF str = <<>> THEN acc
  ELSE DecimalValue(Tail(str), acc * 10 + DigitVal(Head(str)))

Number(str) ==
  IF \A i \in 1..Len(str) : str[i] \in Digits
  THEN DecimalValue(str, 0)
  ELSE NaN

isNaN(n) == n = NaN

\* DEFAULT_BUILTINS.exit: the codes it passes to exit(), in order. The
\* parameter pattern [ exitCodeStr ] binds the first element of argv.
DEFAULT_BUILTINS_exit(argv) ==
  With(IF Len(argv) = 0 THEN NaN ELSE Number(argv[1]), LAMBDA exitCode :
    (IF Len(argv) = 0 THEN <<0>> ELSE <<>>)
      \o <<IF isNaN(exitCode) THEN 0 ELSE exitCode>>)

\* a spawn() that hands the collaborator's code on as it is: what the code
\* would do without the test for null
spawnUnchecked(exitCode) == exitCode

\* ShellEvaluator.spawn: null from the collaborator becomes 1
spawnResult(exitCode) == IF exitCode = null THEN 1 ELSE exitCode


\* ------------------------------------------------------ orchestrator: values

S_exit == <<"e", "x", "i", "t">>
S_bake == <<"b", "a", "k", "e">>
S_npm == <<"n", "p", "m">>
S_run == <<"r", "u", "n">>
S_test == <<"t", "e", "s", "t">>
S_start == <<"s", "t", "a", "r", "t">>
NoLocalFlag == <<"-", "-", "n", "o", "-", "l", "o", "c", "a", "l">>
LocalFlag == <<"-", "-", "l", "o", "c", "a", "l">>
WorkDirFlag == <<"-", "-", "w", "o", "r", "k", "-", "d", "i", "r">>
WorkDirAlias == <<"-", "C">>
RootDir == <<"/">>

countChars(str, needle) == Cardinality({i \in 1..Len(str) : str[i] = needle})

\* Array.prototype.join(sep)
RECURSIVE join(_, _)
join(parts, sep) ==
  IF parts = <<>> THEN <<>>
  ELSE IF Len(parts) = 1 THEN parts[1]
  ELSE parts[1] \o <<sep>> \o join(Tail(parts), sep)

\* a slice that keeps every element
sliceAll(arr, n) == arr

\* Array.prototype.slice(0, n)
slice0(arr, n) == SubSeq(arr, 1, IF n < Len(arr) THEN n ELSE Len(arr))

\* a slice that drops the first element, whatever n is
sliceFromOne(arr, n) == SubSeq(arr, 2, Len(arr))

\* Array.prototype.slice(n)
sliceFrom(arr, n) == SubSeq(arr, n + 1, Len(arr))

\* Minimatch(str, pattern) for patterns of literal characters, '*' and '?'
RECURSIVE Minimatch(_, _)
Minimatch(str, pattern) ==
  IF pattern = <<>> THEN str = <<>>
  ELSE IF Head(pattern) = "*"
  THEN Minimatch(str, Tail(pattern)) \/ (str # <<>> /\ Minimatch(Tail(str), pattern))
  ELSE /\ str # <<>>
       /\ (Head(pattern) = "?" \/ Head(pattern) = Head(str))
       /\ Minimatch(Tail(str), Tail(pattern))

matchTaskName(taskName, expected) ==
  \/ Len(expected) = 0
  \/ \E n \in 1..Len(expected) :
       LET pattern == expected[n]
           k == countChars(pattern, ":")
           taskNamePart == join(slice0(split(taskName, ":"), k + 1), ":")
       IN Minimatch(taskNamePart, pattern)

\* Array.prototype.filter
RECURSIVE filter(_, _)
filter(tasks, expected) ==
  IF tasks = <<>> THEN <<>>
  ELSE (IF matchTaskName(Head(tasks).name, expected) THEN <<Head(tasks)>> ELSE <<>>)
         \o filter(Tail(tasks), expected)

\* path.join(dir, name) for a relative name of one segment
pathJoin(dir, name) == IF dir = RootDir THEN dir \o name ELSE dir \o <<"/">> \o name

\* path.parse(p).dir for an absolute path p
pathDir(p) ==
  LET last == CHOOSE i \in 1..Len(p) : p[i] = "/" /\ \A j \in (i + 1)..Len(p) : p[j] # "/"
  IN IF last = 1 THEN RootDir ELSE SubSeq(p, 1, last - 1)

\* upsearch('package.json', startDir): the directory of the file found, or
\* <<>> for null. files is the set of directories that hold a package.json.
RECURSIVE upsearch(_, _)
upsearch(files, currDir) ==
  IF currDir \in files THEN currDir
  ELSE IF pathDir(currDir) = RootDir THEN <<>>
  ELSE upsearch(files, pathDir(currDir))

\* the options yargs parses out of rawArgs: [tasks, local, workDir]; a later
\* flag overrides an earlier one, an unknown flag is dropped
RECURSIVE yargsParse(_, _)
yargsParse(rawArgs, acc) ==
  IF rawArgs = <<>> THEN acc
  ELSE LET a == Head(rawArgs)
       IN IF a = NoLocalFlag
          THEN yargsParse(Tail(rawArgs), [acc EXCEPT !.local = FALSE])
          ELSE IF a = LocalFlag
          THEN yargsParse(Tail(rawArgs), [acc EXCEPT !.local = TRUE])
          ELSE IF a \in {WorkDirFlag, WorkDirAlias} /\ Len(rawArgs) >= 2
          THEN yargsParse(Tail(Tail(rawArgs)), [acc EXCEPT !.workDir = rawArgs[2]])
          ELSE IF a # <<>> /\ Head(a) = "-"
          THEN yargsParse(Tail(rawArgs), acc)
          ELSE yargsParse(Tail(rawArgs), [acc EXCEPT !.tasks = Append(@, a)])

yargsDefaults == [tasks |-> <<>>, local |-> TRUE, workDir |-> <<".">>]

\* path.resolve(workDir) in a process whose working directory is cwd
pathResolve(cwd, workDir) ==
  IF workDir = <<".">> THEN cwd
  ELSE IF Head(workDir) = "/" THEN workDir
  ELSE pathJoin(cwd, workDir)


\* ------------------------------------------------------------------- state

VARIABLES
  files,       \* directory -> the package.json it holds
  processCwd,  \* process.cwd()
  rawArgs,     \* process.argv.slice(2)
  localBin,    \* what npmWhich(cwd).sync('bake') finds: "none", "same", "other"
  invs,        \* the invocations of invoke(), in the order they were made
  exited,      \* the exit code of the process, Pending while it runs
  unhandled,   \* a promise was rejected with nothing handling the rejection
  shell,       \* a command text with the lexer and the parser run on it
  matching,    \* a task name and the patterns matchTaskName is called with
  mux,         \* the PrefixTransformStream of each task writing to the console
  console      \* what the streams pushed to the console, in order

\* the state of the program run as a whole, and that of its parts run alone
program == <<files, processCwd, rawArgs, localBin, invs, exited, unhandled>>
units == <<shell, matching, mux, console>>

vars == <<files, processCwd, rawArgs, localBin, invs, exited, unhandled,
          shell, matching, mux, console>>

\* the parts not run
NoShell == [input |-> <<>>, pc |-> "none"]
NoMatching == [pc |-> "none"]

\* ------------------------------------------------------- evaluator: session

EmptyCommand == SpawnCommand(<<>>)

\* the number of commands of a tree, which numbers them from left to right
RECURSIVE NumLeaves(_)
NumLeaves(command) ==
  IF command.type \in {"AndCommand", "OrCommand"}
  THEN NumLeaves(command.left) + NumLeaves(command.right)
  ELSE 1

\* process.env
ProcessEnv ==
  (<<"H", "O", "M", "E">> :> <<"/", "h", "o", "m", "e", "/", "s", "a", "m">>)
    @@ (<<"X">> :> <<"p", " ", "q">>)

\* One evaluation (the promise evalShellCommand returns, with its evaluator).
\*   pc: "visit"     a SpawnCommand is being visited, argv not yet built
\*       "spawn"     this.spawn(argv) is awaiting the collaborator
\*       "reinvoke"  a builtin is awaiting reinvoke(...), invocation child
\*       "resolved"  accept(result) was called
\*       "rejected"  the promise executor threw (lex or parse error)
\*       "hung"      a rejection or throw left the promise pending for good
\*   K:  the continuation next: the enclosing operators whose left operand
\*       is being evaluated, innermost first; exit is always accept
\*   at: the number of the command being visited, counted from the left
\*   calls: what was invoked so far (a history, read by the properties)
ShellEvaluator(cwd, env, builtins) ==
  [cwd |-> cwd, env |-> env, builtins |-> builtins, pc |-> "visit", ast |-> EmptyCommand,
   node |-> EmptyCommand, at |-> 0, K |-> <<>>, result |-> Pending,
   child |-> 0, err |-> "", calls |-> <<>>]

\* accept(code): the first call settles the promise
accept(ev, code) ==
  IF ev.pc \in {"resolved", "rejected"} THEN ev
  ELSE [ev EXCEPT !.pc = "resolved", !.result = code]

\* visit(command, next, exit) up to the first command to run: the operators
\* on the way down are pushed on K. base is the number of commands to the
\* left of this subtree.
RECURSIVE visit(_, _, _)

\* a visit that starts with the right operand and continues with the left
visitRightFirst(ev, command, base) ==
  IF command.type = "SpawnCommand"
  THEN [ev EXCEPT !.pc = "visit", !.node = command, !.at = base + 1]
  ELSE IF command.type \in {"AndCommand", "OrCommand"}
  THEN visit([ev EXCEPT !.K = <<[type |-> command.type, right |-> command.left,
                                 base |-> base]>> \o @],
             command.right, base + NumLeaves(command.left))
  ELSE [ev EXCEPT !.pc = "hung", !.err = "Error", !.at = base + 1]

visit(ev, command, base) ==
  IF command.type = "SpawnCommand"
  THEN [ev EXCEPT !.pc = "visit", !.node = command, !.at = base + 1]
  ELSE IF command.type \in {"AndCommand", "OrCommand"}
  THEN visit([ev EXCEPT !.K = <<[type |-> command.type, right |-> command.right,
                                 base |-> base + NumLeaves(command.left)]>> \o @],
             command.left, base)
  ELSE [ev EXCEPT !.pc = "hung", !.err = "Error", !.at = base + 1]

\* The continuations of a shell that ends only the operand, not the whole
\* evaluation, where this evaluator calls the outer exit: a failure skips
\* the enclosing && operators up to the next ||, a success skips the
\* enclosing || operators up to the next &&.
RECURSIVE failThrough(_, _)
failThrough(ev, exitCode) ==
  IF ev.K = <<>> THEN accept(ev, exitCode)
  ELSE IF Head(ev.K).type = "AndCommand"
  THEN failThrough([ev EXCEPT !.K = Tail(@)], exitCode)
  ELSE visit([ev EXCEPT !.K = Tail(@)], Head(ev.K).right, Head(ev.K).base)

RECURSIVE succeedThrough(_)
succeedThrough(ev) ==
  IF ev.K = <<>> THEN accept(ev, 0)
  ELSE IF Head(ev.K).type = "OrCommand"
  THEN succeedThrough([ev EXCEPT !.K = Tail(@)])
  ELSE visit([ev EXCEPT !.K = Tail(@)], Head(ev.K).right, Head(ev.K).base)

continueAndLocally(ev, frame, exitCode) ==
  IF frame.type = "AndCommand"
  THEN IF exitCode # 0
       THEN failThrough(ev, exitCode)
       ELSE visit(ev, frame.right, frame.base)
  ELSE IF exitCode = 0
       THEN accept(ev, 0)
       ELSE visit(ev, frame.right, frame.base)

continueOrLocally(ev, frame, exitCode) ==
  IF frame.type = "AndCommand"
  THEN IF exitCode # 0
       THEN accept(ev, exitCode)
       ELSE visit(ev, frame.right, frame.base)
  ELSE IF exitCode = 0
       THEN succeedThrough(ev)
       ELSE visit(ev, frame.right, frame.base)

\* the continuation an AndCommand or OrCommand gives its left operand
continueWith(ev, frame, exitCode) ==
  IF frame.type = "AndCommand"
  THEN IF exitCode # 0
       THEN accept(ev, exitCode)
       ELSE visit(ev, frame.right, frame.base)
  ELSE IF exitCode = 0
       THEN accept(ev, 0)
       ELSE visit(ev, frame.right, frame.base)

\* the last call of the history, completed
noteLast(ev, via, raw, code) ==
  [ev EXCEPT !.calls[Len(ev.calls)] =
     [@ EXCEPT !.via = via, !.raw = raw, !.delivered = code]]

\* a command that hands its code to exit where it should call next
exitInsteadOfNext(ev, raw, exitCode) ==
  accept(noteLast(ev, "exit", raw, exitCode), exitCode)

\* next(exitCode) as the command being run receives it
next(ev, raw, exitCode) ==
  With(noteLast(ev, "next", raw, exitCode), LAMBDA ev1 :
    IF ev1.K = <<>> THEN accept(ev1, exitCode)
    ELSE continueWith([ev1 EXCEPT !.K = Tail(@)], Head(ev1.K), exitCode))

\* an exit builtin whose third parameter is bound to next: the first code
\* goes to the continuation of the enclosing operator
exitAsNext(ev, codes) ==
  IF ev.K = <<>> THEN accept(ev, Head(codes))
  ELSE continueWith([ev EXCEPT !.K = Tail(@)], Head(ev.K), Head(codes))

\* exit(exitCode) called by a builtin with each of the codes, in order
RECURSIVE exitAll(_, _)
exitAll(ev, codes) ==
  IF codes = <<>> THEN ev ELSE exitAll(accept(ev, Head(codes)), Tail(codes))

\* ShellEvaluator.eval(command) for a command text: parse, then visit
eval(ev, command) ==
  With(parseShellCommand(command), LAMBDA parsed :
    IF parsed.err # ""
    THEN [ev EXCEPT !.pc = "rejected", !.err = parsed.err]
    ELSE visit([ev EXCEPT !.ast = parsed.val], parsed.val, 0))

\* evalShellCommand(command, {cwd, env, extraBuiltins, noDefaultBuiltins})
evalShellCommand(command, cwd, env, extraBuiltins, noDefaultBuiltins) ==
  LET builtins == IF noDefaultBuiltins THEN extraBuiltins
                  ELSE {S_exit} \cup extraBuiltins
  IN eval(ShellEvaluator(cwd, env, builtins), command)

\* a lookup that finds nothing, as with an empty table of builtins
lookupNothing(builtins, argv) == <<>>

\* this.builtins[argv[0]]: the name of the builtin found, <<>> for undefined
lookupBuiltin(builtins, argv) ==
  IF Len(argv) > 0 /\ argv[1] \in builtins THEN argv[1] ELSE <<>>

Call(at, argv, builtin, spawnedBy) ==
  [at |-> at, argv |-> argv, builtin |-> builtin, spawnedBy |-> spawnedBy,
   via |-> "none", raw |-> Pending, delivered |-> Pending]


\* ------------------------------------------------------------ orchestrator

MaxInvocations == 3
MaxExitCode == 2

\* what an external process can exit with: a code, or null when a signal
\* ended it
ExitCodes == {null} \cup 0..MaxExitCode

\* the programs npmWhich.sync(progName) finds
Installed == {<<"p">>, <<"q">>, <<"c", "p">>, S_npm}

\* One invocation, the promise invoke() returns with the bake() it calls.
\*   pc: "discover"  bake() is reading the descriptors
\*       "loaded"    the descriptors are read, the tasks not yet selected
\*       "running"   the selected tasks were started, Promise.all is awaited
\*       "done"      bake() returned result
\*       "rejected"  bake() threw
\*   accepted: what the promise of invoke() resolved with
Invocation(parent, args, cwd, delegated, status) ==
  [parent |-> parent, expectedTaskNames |-> args.tasks, cwd |-> cwd,
   allowRespawn |-> args.local, delegated |-> delegated, status |-> status,
   pc |-> "discover", packageDir |-> <<>>, tasks |-> <<>>, tasksToRun |-> <<>>, evals |-> <<>>,
   result |-> Pending, message |-> "",
   accepted |-> IF delegated THEN (IF status = null THEN 1 ELSE status)
                ELSE Pending]

\* invoke(rawArgs) up to the first await of the bake() it calls. status is
\* what cp.spawnSync(...).status gives when the call is delegated.
invoke(args, parent, cwd, bin, status) ==
  With(yargsParse(args, yargsDefaults), LAMBDA parsed :
    Invocation(parent, parsed, pathResolve(cwd, parsed.workDir),
               parsed.local /\ bin = "other",
               IF parsed.local /\ bin = "other" THEN status ELSE Pending))

reinvoke(args, parent, cwd, bin, status) ==
  invoke(<<NoLocalFlag>> \o args, parent, cwd, bin, status)

\* whether invoke(args) delegates to the local installation
delegates(args, bin) == yargsParse(args, yargsDefaults).local /\ bin = "other"

TaskInfo(name, cwd, shellCommand) ==
  [name |-> name, cwd |-> cwd, shellCommand |-> shellCommand]

\* loadTasks(packageDir), collected: [val, err]
loadTasks(fs, packageDir) ==
  IF packageDir \notin DOMAIN fs THEN [val |-> <<>>, err |-> "ENOENT"]
  ELSE LET scripts == fs[packageDir].scripts
       IN IF scripts.kind = "undefined" THEN [val |-> <<>>, err |-> ""]
          ELSE IF scripts.kind # "object" THEN [val |-> <<>>, err |-> "CLIError"]
          ELSE [val |-> [n \in 1..Len(scripts.entries) |->
                           TaskInfo(scripts.entries[n].name, packageDir,
                                    scripts.entries[n].shellCommand)],
                err |-> ""]

\* the loop over packageJson.workspaces: [val, err]
RECURSIVE loadWorkspaces(_, _, _, _)
loadWorkspaces(fs, packageDir, dirs, tasks) ==
  IF dirs = <<>> THEN [val |-> tasks, err |-> ""]
  ELSE With(loadTasks(fs, pathJoin(packageDir, Head(dirs))), LAMBDA r :
         IF r.err # "" THEN r
         ELSE loadWorkspaces(fs, packageDir, Tail(dirs), tasks \o r.val))

\* bake(): the discovery of the tasks: [val, err]
discover(fs, packageDir) ==
  IF fs[packageDir].workspaces.defined
  THEN loadWorkspaces(fs, packageDir, fs[packageDir].workspaces.dirs, <<>>)
  ELSE loadTasks(fs, packageDir)

\* bake(): the message of the error reported when no task is selected
noTasksMessage(packageJson) ==
  IF /\ ~packageJson.workspaces.defined
     /\ (packageJson.scripts.kind = "undefined" \/ packageJson.scripts.entries = <<>>)
  THEN "no tasks were defined"
  ELSE "no tasks matched"

\* runTask(task): the evaluation it starts
runTask(task) ==
  evalShellCommand(task.shellCommand, task.cwd, ProcessEnv, {S_bake, S_npm}, FALSE)

\* a start of the first selected task alone, the others left for later
startFirst(tasksToRun) == <<runTask(tasksToRun[1])>>

\* tasksToRun.map(runTask)
startAll(tasksToRun) == [n \in 1..Len(tasksToRun) |-> runTask(tasksToRun[n])]

\* an aggregation that reads the exit code of the first task only
aggregateFirst(exitCodes) == IF exitCodes[1] # 0 THEN 1 ELSE 0

\* what bake() returns once Promise.all gave the exit codes
aggregate(exitCodes) ==
  IF \E n \in 1..Len(exitCodes) : exitCodes[n] # 0 THEN 1 ELSE 0

\* a wait that also ends as soon as one task has failed
allResolvedOrOneFailed(evals) ==
  \/ \A n \in 1..Len(evals) : evals[n].pc = "resolved"
  \/ \E n \in 1..Len(evals) : evals[n].pc = "resolved" /\ evals[n].result # 0

\* Promise.all(promises) is fulfilled: every promise is
allResolved(evals) == \A n \in 1..Len(evals) : evals[n].pc = "resolved"

\* bake() returns code; the .then(accept) of invoke() follows
return(inv, code, message) ==
  [inv EXCEPT !.pc = "done", !.result = code, !.message = message,
              !.accepted = IF @ = Pending THEN code ELSE @]

\* the process runs until process.exit() is called or it crashes
Alive ==
  /\ exited = Pending
  /\ invs # <<>> => invs[1].accepted = Pending


\* what cp.spawnSync(...).status gives for the delegated invocation
DelegateStatuses == {null, 0, 1}

\* a spawn that records the command in the session as a shell does in $_
spawnSettingUnderscore(ev, by) ==
  LET argv == ev.calls[Len(ev.calls)].argv
      ev1 == [ev EXCEPT !.calls[Len(ev.calls)].spawnedBy = by,
                        !.env = (<<"_">> :> (IF argv = <<>> THEN <<>> ELSE argv[Len(argv)])) @@ @]
  IN IF Len(argv) = 0 \/ argv[1] \notin Installed
     THEN [ev1 EXCEPT !.pc = "hung", !.err = "SpawnError"]
     ELSE [ev1 EXCEPT !.pc = "spawn"]

\* spawnWithPrefix(argv, ...) as this.spawn(argv) starts it: the promise is
\* rejected when npmWhich.sync(progName) throws
spawn(ev, by) ==
  LET argv == ev.calls[Len(ev.calls)].argv
      ev1 == [ev EXCEPT !.calls[Len(ev.calls)].spawnedBy = by]
  IN IF Len(argv) = 0 \/ argv[1] \notin Installed
     THEN [ev1 EXCEPT !.pc = "hung", !.err = "SpawnError"]
     ELSE [ev1 EXCEPT !.pc = "spawn"]

\* the end of visit() for a SpawnCommand, argv built: the builtin found is
\* called, or the process spawned. [ev, reinvoke, args]: reinvoke says that a
\* builtin called reinvoke(args).
dispatch(ev, argv) ==
  With(lookupBuiltin(ev.builtins, argv), LAMBDA builtin :
    With([ev EXCEPT !.calls = Append(@, Call(ev.at, argv, builtin, "none"))],
         LAMBDA ev1 :
      LET stay(e) == [ev |-> e, reinvoke |-> FALSE, args |-> <<>>]
          again(args) == [ev |-> [ev1 EXCEPT !.pc = "reinvoke"], reinvoke |-> TRUE,
                          args |-> args]
      IN IF builtin = S_exit
         THEN With(DEFAULT_BUILTINS_exit(argv), LAMBDA codes :
                stay(exitAll(noteLast(ev1, "exit", Pending, codes[1]), codes)))
         ELSE IF builtin = S_bake
         THEN again(sliceFrom(argv, 1))
         ELSE IF builtin = S_npm
         THEN IF Len(argv) >= 2 /\ argv[2] = S_run
              THEN again(sliceFrom(argv, 2))
              ELSE IF Len(argv) >= 2 /\ argv[2] \in {S_test, S_start}
              THEN again(sliceFrom(argv, 1))
              ELSE stay(spawn(ev1, "builtin"))
         ELSE stay(spawn(ev1, "eval"))))

\* ----------------------------------------------------------------- actions

\* the call invoke(process.argv.slice(2)) that starts the program
Start ==
  /\ invs = <<>>
  /\ exited = Pending
  /\ \E status \in IF delegates(rawArgs, localBin) THEN DelegateStatuses ELSE {Pending} :
       invs' = <<invoke(rawArgs, <<>>, processCwd, localBin, status)>>
  /\ UNCHANGED <<files, processCwd, rawArgs, localBin, exited, unhandled>>
  /\ UNCHANGED units

\* bake(): the search for package.json and the reading of the tasks
Discover(i) ==
  /\ Alive
  /\ invs[i].pc = "discover"
  /\ \E inv \in {[invs[i] EXCEPT !.expectedTaskNames =
                    IF Len(@) = 0 THEN <<S_bake>> ELSE @]} :
     \E packageDir \in {upsearch(DOMAIN files, inv.cwd)} :
       IF packageDir = <<>>
       THEN /\ invs' = [invs EXCEPT ![i] = return(inv, 1, "no package.json found")]
            /\ UNCHANGED unhandled
       ELSE \E found \in {discover(files, packageDir)} :
              IF found.err # ""
              THEN /\ invs' = [invs EXCEPT ![i] =
                                 [inv EXCEPT !.pc = "rejected",
                                             !.packageDir = packageDir,
                                             !.message = found.err]]
                   /\ unhandled' = TRUE
              ELSE /\ invs' = [invs EXCEPT ![i] =
                                 [inv EXCEPT !.pc = "loaded",
                                             !.packageDir = packageDir,
                                             !.tasks = found.val]]
                   /\ UNCHANGED unhandled
  /\ UNCHANGED <<files, processCwd, rawArgs, localBin, exited>>
  /\ UNCHANGED units

\* bake(): the selection of the tasks and the start of every one of them
Dispatch(i) ==
  /\ Alive
  /\ invs[i].pc = "loaded"
  /\ \E tasksToRun \in {filter(invs[i].tasks, invs[i].expectedTaskNames)} :
       invs' = [invs EXCEPT ![i] =
         IF Len(tasksToRun) = 0
         THEN return(@, 1, noTasksMessage(files[@.packageDir]))
         ELSE [@ EXCEPT !.pc = "running", !.tasksToRun = tasksToRun,
                        !.evals = startAll(tasksToRun)]]
  /\ UNCHANGED <<files, processCwd, rawArgs, localBin, exited, unhandled>>
  /\ UNCHANGED units

\* The nested invocation is the one it is started from over again: a run
\* of one task, nested itself, in the same directory with the same filter.
\* Past MaxInvocations such an invocation is kept in the place of the one
\* that started it, so that a descent without end stays within the bound.
repeats(inv, nested) ==
  /\ inv.parent # <<>>
  /\ Len(inv.evals) = 1
  /\ ~inv.delegated
  /\ ~nested.delegated
  /\ nested.cwd = inv.cwd
  /\ inv.expectedTaskNames =
       (IF Len(nested.expectedTaskNames) = 0 THEN <<S_bake>>
        ELSE nested.expectedTaskNames)

\* visit(): argv is built and the command is run
Exec(i, t) ==
  /\ Alive
  /\ invs[i].evals[t].pc = "visit"
  /\ \E ev \in {invs[i].evals[t]} :
     \E built \in {evalArgs(ev.node.args, ev.env, <<>>)} :
       IF built.err # ""
       THEN /\ invs' = [invs EXCEPT ![i].evals[t] = [ev EXCEPT !.pc = "hung",
                                                              !.err = built.err]]
            /\ unhandled' = TRUE
       ELSE \E d \in {dispatch(ev, built.val)} :
              IF d.reinvoke
              THEN /\ \E status \in IF delegates(<<NoLocalFlag>> \o d.args, localBin)
                                    THEN DelegateStatuses ELSE {Pending} :
                      \E nested \in {reinvoke(d.args, <<i, t>>, processCwd,
                                               localBin, status)} :
                        IF Len(invs) < MaxInvocations
                        THEN invs' = Append([invs EXCEPT ![i].evals[t] =
                                               [d.ev EXCEPT !.child = Len(invs) + 1]],
                                            nested)
                        ELSE /\ repeats(invs[i], nested)
                             /\ invs' = [invs EXCEPT ![i] =
                                          [nested EXCEPT !.parent = invs[i].parent]]
                   /\ UNCHANGED unhandled
              ELSE /\ invs' = [invs EXCEPT ![i].evals[t] = d.ev]
                   /\ unhandled' = (unhandled \/ d.ev.pc = "hung")
  /\ UNCHANGED <<files, processCwd, rawArgs, localBin, exited>>
  /\ UNCHANGED units

\* the spawned process exits: this.spawn(argv).then(next)
SpawnExit(i, t) ==
  /\ Alive
  /\ invs[i].evals[t].pc = "spawn"
  /\ \E code \in ExitCodes :
     \E ev \in {next(invs[i].evals[t], code, spawnResult(code))} :
       /\ invs' = [invs EXCEPT ![i].evals[t] = ev]
       /\ unhandled' = (unhandled \/ ev.pc = "hung")
  /\ UNCHANGED <<files, processCwd, rawArgs, localBin, exited>>
  /\ UNCHANGED units

\* the nested invocation is over: reinvoke(...).then(next)
ReinvokeDone(i, t) ==
  /\ Alive
  /\ invs[i].evals[t].pc = "reinvoke"
  /\ invs[invs[i].evals[t].child].accepted # Pending
  /\ \E ev \in {next(invs[i].evals[t], Pending,
                     invs[invs[i].evals[t].child].accepted)} :
       /\ invs' = [invs EXCEPT ![i].evals[t] = ev]
       /\ unhandled' = (unhandled \/ ev.pc = "hung")
  /\ UNCHANGED <<files, processCwd, rawArgs, localBin, exited>>
  /\ UNCHANGED units

\* bake(): Promise.all gave the exit codes
Aggregate(i) ==
  /\ Alive
  /\ invs[i].pc = "running"
  /\ allResolved(invs[i].evals)
  /\ \E code \in {aggregate([n \in 1..Len(invs[i].evals) |->
                               invs[i].evals[n].result])} :
       invs' = [invs EXCEPT ![i] =
         return(@, code, IF code = 1 THEN "some tasks failed" ELSE "")]
  /\ UNCHANGED <<files, processCwd, rawArgs, localBin, exited, unhandled>>
  /\ UNCHANGED units

\* bake(): Promise.all is rejected as soon as one evaluation is
Rejected(i) ==
  /\ Alive
  /\ invs[i].pc = "running"
  /\ \E t \in 1..Len(invs[i].evals) : invs[i].evals[t].pc = "rejected"
  /\ invs' = [invs EXCEPT ![i].pc = "rejected"]
  /\ unhandled' = TRUE
  /\ UNCHANGED <<files, processCwd, rawArgs, localBin, exited>>
  /\ UNCHANGED units

\* invoke(...).then(exitCode => process.exit(exitCode))
ProcessExit ==
  /\ exited = Pending
  /\ invs # <<>>
  /\ invs[1].accepted # Pending
  /\ exited' = invs[1].accepted
  /\ UNCHANGED <<files, processCwd, rawArgs, localBin, invs, unhandled>>
  /\ UNCHANGED units

\* an unhandled rejection ends the process with exit code 1 on the Node.js
\* versions that treat it as an uncaught exception; on the others it is only
\* warned about, and this step is never taken
Crash ==
  /\ Alive
  /\ unhandled
  /\ exited' = 1
  /\ UNCHANGED <<files, processCwd, rawArgs, localBin, invs, unhandled>>
  /\ UNCHANGED units

Next ==
  \/ Start
  \/ \E i \in DOMAIN invs : Discover(i)
  \/ \E i \in DOMAIN invs : Dispatch(i)
  \/ \E i \in DOMAIN invs : \E t \in DOMAIN invs[i].evals : Exec(i, t)
  \/ \E i \in DOMAIN invs : \E t \in DOMAIN invs[i].evals : SpawnExit(i, t)
  \/ \E i \in DOMAIN invs : \E t \in DOMAIN invs[i].evals : ReinvokeDone(i, t)
  \/ \E i \in DOMAIN invs : Aggregate(i)
  \/ \E i \in DOMAIN invs : Rejected(i)
  \/ ProcessExit
  \/ Crash


\* --------------------------------------------------------------- scenarios

\* The descriptors, working directories and command lines the program is
\* started with. Directories, task names and command texts:
W == <<"/", "w">>
WSrc == <<"/", "w", "/", "s">>
E == <<"/", "e">>
WX == <<"/", "w", "/", "x">>
WY == <<"/", "w", "/", "y">>
N_a == <<"a">>
N_b == <<"b">>
N_t == <<"t">>
N_x == <<"x">>
N_y == <<"y">>
N_star == <<"*">>
N_z == <<"z">>
T_p == <<"p">>
T_q == <<"q">>
T_exit == <<"e", "x", "i", "t">>
T_exit0 == <<"e", "x", "i", "t", " ", "0">>
T_exit1 == <<"e", "x", "i", "t", " ", "1">>
T_exit2 == <<"e", "x", "i", "t", " ", "2">>
T_exit12 == <<"e", "x", "i", "t", " ", "1", "2">>
T_exitx == <<"e", "x", "i", "t", " ", "x">>
T_and == <<" ", "&", "&", " ">>
T_or == <<" ", "|", "|", " ">>
T_cp == <<"c", "p", " ", "$", "H", "O", "M", "E", "/", "m", "y", "-", "a", "p", "p", " ", "/", "a", "p", "p">>
T_hoist == <<"$", "X">>
T_undef == <<"p", " ", "$", "U">>
T_undef_and == <<"p", " ", "$", "U", " ", "&", "&", " ", "q">>
T_proto == <<"p", " ", "$", "v", "a", "l", "u", "e", "O", "f">>
T_nf == <<"n", "f">>
T_glued == <<"p", "&", "&", "q">>
T_amp == <<"p", " ", "&">>
T_bake_ab == <<"b", "a", "k", "e", " ", "a", " ", "b">>
T_bake_a == <<"b", "a", "k", "e", " ", "a">>
T_npm_run == <<"n", "p", "m", " ", "r", "u", "n", " ", "a", " ", "|", "|", " ", "q">>
T_npm_test == <<"n", "p", "m", " ", "t", "e", "s", "t">>
T_npm_i == <<"n", "p", "m", " ", "i">>
T_bake_local == <<"b", "a", "k", "e", " ", "-", "-", "l", "o", "c", "a", "l", " ", "a">>

Entry(name, shellCommand) == [name |-> name, shellCommand |-> shellCommand]
Scripts(entries) == [kind |-> "object", entries |-> entries]
NoScripts == [kind |-> "undefined", entries |-> <<>>]
BadScripts == [kind |-> "string", entries |-> <<>>]
NoWorkspaces == [defined |-> FALSE, dirs |-> <<>>]
Workspaces(dirs) == [defined |-> TRUE, dirs |-> dirs]
PackageJson(scripts, workspaces) == [scripts |-> scripts, workspaces |-> workspaces]

Scenario(fs, cwd, args, bin) ==
  [files |-> fs, processCwd |-> cwd, rawArgs |-> args, localBin |-> bin]

\* a project at /w with these scripts and no workspaces
Project(entries) == W :> PackageJson(Scripts(entries), NoWorkspaces)

\* command texts of up to three commands chained with && and ||
Leafs == {T_p, T_exit2}
Operators == {T_and, T_or}
Chains ==
  Leafs
    \cup {a \o o \o b : a \in Leafs, o \in Operators, b \in Leafs}
    \cup {a \o o1 \o b \o o2 \o c :
            a \in Leafs, o1 \in Operators, b \in Leafs, o2 \in Operators, c \in Leafs}

ChainScenarios ==
  {Scenario(Project(<<Entry(N_a, c)>>), W, <<N_a>>, "same") : c \in Chains}

ExitScenarios ==
  {Scenario(Project(<<Entry(N_a, c)>>), W, <<N_a>>, "same") :
     c \in {T_exit, T_exit0, T_exit1, T_exit12, T_exitx}}

SelectScenarios ==
  {Scenario(Project(<<Entry(N_a, T_exit0), Entry(N_b, T_exit1)>>), cwd, args, bin) :
     cwd \in {W, WSrc, E},
     args \in {<<N_a, N_b>>, <<>>, <<N_star>>, <<N_b>>, <<N_z>>},
     bin \in {"none", "same", "other"}}

ParallelScenarios ==
  {Scenario(Project(<<Entry(N_a, T_p), Entry(N_b, c), Entry(N_t, T_exit0)>>),
            W, args, "same") :
     c \in {T_q, T_q \o T_and \o T_p, T_exit2},
     args \in {<<N_a, N_b>>, <<N_star>>}}

NestedScenarios ==
  {Scenario(Project(entries), W, args, "same") :
     entries \in {<<Entry(S_bake, T_bake_ab), Entry(N_a, T_p), Entry(N_b, T_exit2)>>,
                  <<Entry(S_bake, T_npm_run), Entry(N_a, T_p)>>,
                  <<Entry(S_bake, T_npm_test), Entry(S_test, T_p)>>,
                  <<Entry(S_bake, T_npm_i)>>,
                  <<Entry(S_bake, T_bake_a), Entry(N_a, T_bake_a)>>},
     args \in {<<>>}}
    \cup {Scenario(Project(<<Entry(N_t, T_bake_local), Entry(N_a, T_p)>>),
                   W, args, "other") : args \in {<<N_t>>, <<NoLocalFlag, N_t>>}}
    \cup {Scenario(Project(<<Entry(N_t, T_bake_a), Entry(N_a, T_p)>>),
                   WSrc, <<N_t>>, "same"),
          Scenario(Project(<<Entry(N_t, T_bake_a \o T_and \o T_q),
                             Entry(N_a, T_exit2)>>),
                   W, <<N_t>>, "same"),
          Scenario((W :> PackageJson(NoScripts, Workspaces(<<N_x, N_y>>)))
                     @@ (WX :> PackageJson(Scripts(<<Entry(N_t, T_bake_a),
                                                     Entry(N_a, T_p)>>),
                                           NoWorkspaces))
                     @@ (WY :> PackageJson(Scripts(<<Entry(N_a, T_q)>>),
                                           NoWorkspaces)),
                   W, <<N_t>>, "same")}

ExpandScenarios ==
  {Scenario(Project(<<Entry(N_a, c)>>), W, <<N_a>>, "same") : c \in {T_cp, T_hoist, T_undef, T_undef_and, T_proto}}

FailureScenarios ==
  {Scenario(Project(<<Entry(N_a, c), Entry(N_b, T_p)>>), W, <<N_star>>, "same") :
     c \in {T_nf, T_glued, T_amp}}
    \cup {Scenario(W :> PackageJson(scripts, NoWorkspaces), W, <<>>, "same") :
            scripts \in {NoScripts, BadScripts, Scripts(<<>>)}}

WorkspaceScenarios ==
  {Scenario((W :> PackageJson(Scripts(<<Entry(N_a, T_p)>>), Workspaces(dirs)))
              @@ (WX :> PackageJson(Scripts(<<Entry(N_a, T_q)>>), NoWorkspaces))
              @@ (WY :> PackageJson(sub, NoWorkspaces)),
            W, <<N_a>>, "same") :
     dirs \in {<<N_x, N_y>>, <<N_x>>, <<N_z>>, <<>>},
     sub \in {NoScripts, BadScripts, Scripts(<<Entry(N_b, T_exit1)>>)}}
    \cup {Scenario((W :> PackageJson(NoScripts, Workspaces(<<N_x>>)))
                     @@ (WX :> PackageJson(NoScripts, NoWorkspaces)),
                   W, <<>>, "same")}

Scenarios ==
  ChainScenarios \cup ExitScenarios \cup SelectScenarios \cup ParallelScenarios
    \cup NestedScenarios \cup ExpandScenarios \cup FailureScenarios
    \cup WorkspaceScenarios

Init ==
  /\ \E s \in Scenarios :
       /\ files = s.files
       /\ processCwd = s.processCwd
       /\ rawArgs = s.rawArgs
       /\ localBin = s.localBin
  /\ invs = <<>>
  /\ exited = Pending
  /\ unhandled = FALSE
  /\ shell = NoShell
  /\ matching = NoMatching
  /\ mux = <<>>
  /\ console = <<>>

Spec == Init /\ [][Next]_vars

\* The program with its event loop: a callback that is ready is run, and a
\* spawned process exits.
FairSpec ==
  /\ Spec
  /\ WF_vars(Start)
  /\ WF_vars(\E i \in DOMAIN invs : Discover(i))
  /\ WF_vars(\E i \in DOMAIN invs : Dispatch(i))
  /\ WF_vars(\E i \in DOMAIN invs : \E t \in DOMAIN invs[i].evals : Exec(i, t))
  /\ WF_vars(\E i \in DOMAIN invs : \E t \in DOMAIN invs[i].evals : SpawnExit(i, t))
  /\ WF_vars(\E i \in DOMAIN invs : \E t \in DOMAIN invs[i].evals : ReinvokeDone(i, t))
  /\ WF_vars(\E i \in DOMAIN invs : Aggregate(i))
  /\ WF_vars(\E i \in DOMAIN invs : Rejected(i))
  /\ WF_vars(ProcessExit)

\* ------------------------------------------- the lexer and the parser alone

MaxText == 3     \* the longest text made of any characters
MaxWords == 3    \* the most words of a command
MaxChain == 4    \* the most commands of a chain
MaxTokens == 6   \* the most calls of lex() on one lexer

\* the texts of n parts, one separator between two parts
RECURSIVE Joined(_, _, _)
Joined(parts, seps, n) ==
  IF n = 1 THEN parts
  ELSE {t \o sep \o part : t \in Joined(parts, seps, n - 1), sep \in seps,
                           part \in parts}

\* the lists of up to n members of S
RECURSIVE Lists(_, _)
Lists(S, n) ==
  IF n = 0 THEN {<<>>}
  ELSE Lists(S, n - 1) \cup {Append(l, x) : l \in Lists(S, n - 1), x \in S}

FreeTexts == Lists({"a", " ", "&", "|", "$", "\\", "\n"}, MaxText)

WordTexts ==
  UNION {Joined({<<"f">>, <<"-", "x">>}, {<<" ">>, <<"\t", " ">>, <<"\r">>}, n) :
           n \in 1..MaxWords}

ChainTexts ==
  UNION {Joined({<<"a">>, <<"b", " ", "c">>},
                {<<" ", "&", "&", " ">>, <<" ", "|", "|", " ">>}, n) :
           n \in 1..MaxChain}

RefTexts ==
  {T_cp}
    \cup UNION {Joined({<<"$", "A">>, <<"$", "A", "/", "x">>, <<"x", "$", "A">>,
                        <<"$", "A", "$", "B", "1">>, <<"y">>}, {<<" ">>}, n) :
                  n \in 1..2}

\* chains whose operators follow the word before them without whitespace
GluedTexts ==
  UNION {Joined({<<"a">>, <<"b", " ", "c">>},
                {<<"&", "&">>, <<"&", "&", " ">>, <<"|", "|">>, <<"|", "|", " ">>}, n) :
           n \in 2..3}

\* a word that starts with an escaped character, first or after a blank
EscapeTexts ==
  {pre \o <<"\\", ch>> \o rest :
     pre \in {<<>>, <<"a", " ">>}, ch \in {"a", "$"}, rest \in {<<>>, <<"b">>}}

\* a lone operator character, a `$` that starts no name, or a backslash
\* that ends the text, first in the text or directly after a word
MalformedTexts ==
  {pre \o bad :
     pre \in {<<>>, <<"a">>},
     bad \in {<<"&">>, <<"&", "a">>, <<"&", " ", "&">>, <<"&", "|">>,
              <<"|">>, <<"|", "a">>, <<"|", " ", "|">>, <<"|", "&">>,
              <<"$">>, <<"$", "1">>, <<"$", " ">>, <<"$", "$", "a">>,
              <<"\\">>}}

\* two words with a newline between them, with and without a backslash
\* and whitespace around it
NewLineTexts ==
  {<<"a">> \o sep \o <<"b">> :
     sep \in {before \o esc \o middle \o <<"\n">> \o after :
                before \in {<<>>, <<" ">>}, esc \in {<<>>, <<"\\">>},
                middle \in {<<>>, <<" ">>}, after \in {<<>>, <<" ">>}}}

ShellTexts ==
  FreeTexts \cup WordTexts \cup ChainTexts \cup RefTexts \cup GluedTexts
    \cup EscapeTexts \cup MalformedTexts \cup NewLineTexts

\* the program and the other parts, not run
Idle ==
  /\ files = <<>> /\ processCwd = RootDir /\ rawArgs = <<>> /\ localBin = "none"
  /\ invs = <<>> /\ exited = Pending /\ unhandled = FALSE

\* new ShellLexer(input), before the first call of lex() or of
\* parseShellCommand(input)
ShellInit ==
  /\ Idle
  /\ \E input \in ShellTexts :
       shell = [input |-> input, pc |-> "ready", lexer |-> ShellLexer(input),
                tokens |-> <<>>, parsed |-> <<>>]
  /\ matching = NoMatching
  /\ mux = <<>>
  /\ console = <<>>

\* one call of lexer.lex(): what it returned or threw, with the lexer it left
Lex ==
  /\ shell.pc = "ready"
  /\ Len(shell.tokens) < MaxTokens
  /\ \E token \in {lex(shell.lexer)} :
       shell' = [shell EXCEPT !.lexer = token.L, !.tokens = Append(@, token)]
  /\ UNCHANGED program
  /\ UNCHANGED <<matching, mux, console>>

\* parseShellCommand(input)
Parse ==
  /\ shell.pc = "ready"
  /\ shell.parsed = <<>>
  /\ shell' = [shell EXCEPT !.parsed = <<parseShellCommand(shell.input)>>]
  /\ UNCHANGED program
  /\ UNCHANGED <<matching, mux, console>>

ShellNext ==
  \/ Lex
  \/ Parse

ShellSpec == ShellInit /\ [][ShellNext]_vars


\* ------------------------------------------------------------- properties

\* every evaluation started so far, by any invocation
AllEvals ==
  UNION {{invs[i].evals[t] : t \in DOMAIN invs[i].evals} : i \in DOMAIN invs}

CallsOf(ev) == {ev.calls[n] : n \in DOMAIN ev.calls}

\* the invocations whose bake() selected tasks and returned
Returned == {i \in DOMAIN invs : invs[i].pc = "done" /\ invs[i].tasksToRun # <<>>}

Range(f) == {f[x] : x \in DOMAIN f}

\* the AndCommand and OrCommand nodes of a tree, each with the number of
\* commands to its left
RECURSIVE Nodes(_, _)
Nodes(command, base) ==
  IF command.type \in {"AndCommand", "OrCommand"}
  THEN {[node |-> command, base |-> base]}
         \cup Nodes(command.left, base)
         \cup Nodes(command.right, base + NumLeaves(command.left))
  ELSE {}

\* the k-th command of a tree, counted from the left
RECURSIVE LeafAt(_, _)
LeafAt(command, k) ==
  IF command.type \in {"AndCommand", "OrCommand"}
  THEN IF k <= NumLeaves(command.left)
       THEN LeafAt(command.left, k)
       ELSE LeafAt(command.right, k - NumLeaves(command.left))
  ELSE command

\* the number of the last command of the left operand of a node, which is
\* the one command that can call the continuation the operator gave to left
LastOfLeft(n) == n.base + NumLeaves(n.node.left)

\* the shell word an Arg stands for: its expansions, concatenated
RECURSIVE Word(_)
Word(arg) ==
  IF arg = <<>> THEN <<>>
  ELSE evalShellExpr(Head(arg), ProcessEnv).val \o Word(Tail(arg))

\* C1: for a non-empty selection, bake() returns 0 if and only if every
\* selected task's evaluation resolved with exit code 0, and 1 otherwise.
C1_ZeroIffAllZero ==
  \A i \in Returned :
    /\ invs[i].result \in {0, 1}
    /\ invs[i].result = 0 <=>
         \A t \in DOMAIN invs[i].evals :
           invs[i].evals[t].pc = "resolved" /\ invs[i].evals[t].result = 0

\* an invocation returned 1 with one task resolved with 0 and another not
C1_Witness ==
  \E i \in Returned :
    /\ invs[i].result = 1
    /\ \E t, u \in DOMAIN invs[i].evals :
         /\ invs[i].evals[t].pc = "resolved" /\ invs[i].evals[t].result = 0
         /\ invs[i].evals[u].pc = "resolved" /\ invs[i].evals[u].result > 0

\* C2: with the scripts a = "exit 0" and b = "exit 1" and the filter [a, b],
\* the invocation's result is 1: a resolved with 0 and b with a non-zero code.
C2_ExitZeroAndExitOne ==
  (/\ files = Project(<<Entry(N_a, T_exit0), Entry(N_b, T_exit1)>>)
   /\ rawArgs = <<N_a, N_b>>
   /\ 1 \in Returned)
    => /\ invs[1].result = 1
       /\ invs[1].evals[1].result = 0
       /\ invs[1].evals[2].result # 0

\* C3: with the default builtins, the command exit N ends the evaluation
\* with result N when N is numeric, and with 0 when there is no argument or
\* the argument is not numeric.
C3_ExitWithCode ==
  \A ev \in AllEvals : \A c \in CallsOf(ev) :
    c.builtin = S_exit =>
      /\ ev.pc = "resolved"
      /\ ev.result = IF Len(c.argv) >= 2 /\ ~isNaN(Number(c.argv[2]))
                     THEN Number(c.argv[2]) ELSE 0

\* C4: every selected task is started before any of them is waited for: the
\* step that starts the tasks leaves one evaluation per selected task, each
\* of them begun and none of them finished.
C4_AllStartedTogether ==
  [][\A i \in DOMAIN invs :
       (invs[i].pc = "loaded" /\ invs'[i].pc = "running") =>
         /\ DOMAIN invs'[i].evals = DOMAIN invs'[i].tasksToRun
         /\ invs'[i].tasksToRun # <<>>
         /\ \A t \in DOMAIN invs'[i].evals :
              /\ invs'[i].evals[t].cwd = invs'[i].tasksToRun[t].cwd
              /\ invs'[i].evals[t].pc \in {"visit", "rejected"}
              /\ invs'[i].evals[t].calls = <<>>]_vars

\* two tasks are in flight together, neither of them finished
C4_Witness ==
  \E i \in DOMAIN invs :
    /\ invs[i].pc = "running"
    /\ Len(invs[i].evals) >= 2
    /\ invs[i].evals[1].pc = "spawn"
    /\ invs[i].evals[2].pc = "spawn"

\* C5: a task that ends with a non-zero exit code leaves its siblings as
\* they are, and bake() returns only once every selected task's evaluation
\* has resolved.
C5_NoCancellation ==
  /\ [](\A i \in Returned :
          \A t \in DOMAIN invs[i].evals : invs[i].evals[t].pc = "resolved")
  /\ [][\A i \in DOMAIN invs : \A t \in DOMAIN invs[i].evals :
          (/\ invs[i].evals[t].pc # "resolved"
           /\ t \in DOMAIN invs'[i].evals
           /\ invs'[i].evals[t].pc = "resolved"
           /\ invs'[i].evals[t].result # 0)
            => /\ invs'[i].pc = invs[i].pc
               /\ \A u \in DOMAIN invs[i].evals \ {t} :
                    invs'[i].evals[u] = invs[i].evals[u]]_vars

\* a task has failed while its sibling is still running, nothing returned
C5_Witness ==
  \E i \in DOMAIN invs :
    /\ invs[i].pc = "running"
    /\ \E t, u \in DOMAIN invs[i].evals :
         /\ invs[i].evals[t].pc = "resolved" /\ invs[i].evals[t].result > 0
         /\ invs[i].evals[u].pc = "spawn"

\* C6: the right operand of an AndCommand is invoked only if the left one
\* gave 0; when the left one gives a non-zero code nothing more is invoked
\* and the whole evaluation ends with that code, also when the AndCommand is
\* the left operand of another operator.
C6_AndShortCircuit ==
  \A ev \in AllEvals : \A n \in Nodes(ev.ast, 0) :
    n.node.type = "AndCommand" =>
      /\ \A c \in CallsOf(ev) :
           c.at > LastOfLeft(n) /\ c.at <= LastOfLeft(n) + NumLeaves(n.node.right)
             => \E l \in CallsOf(ev) :
                  l.at = LastOfLeft(n) /\ l.via = "next" /\ l.delivered = 0
      /\ \A l \in CallsOf(ev) :
           (l.at = LastOfLeft(n) /\ l.via = "next" /\ l.delivered # 0)
             => /\ ev.pc = "resolved"
                /\ ev.result = l.delivered
                /\ \A c \in CallsOf(ev) : c.at <= LastOfLeft(n)

\* a && b || c where a failed: only a was invoked, the result is a's code
C6_Witness ==
  \E ev \in AllEvals :
    /\ ev.ast.type = "OrCommand"
    /\ ev.ast.left.type = "AndCommand"
    /\ Len(ev.calls) = 1
    /\ ev.calls[1].via = "next"
    /\ ev.calls[1].delivered > 0
    /\ ev.pc = "resolved"
    /\ ev.result = ev.calls[1].delivered

\* C7: the right operand of an OrCommand is invoked only if the left one
\* gave a non-zero code; when the left one gives 0 nothing more is invoked
\* and the whole evaluation ends with 0, also when the OrCommand is the left
\* operand of another operator.
C7_OrShortCircuit ==
  \A ev \in AllEvals : \A n \in Nodes(ev.ast, 0) :
    n.node.type = "OrCommand" =>
      /\ \A c \in CallsOf(ev) :
           c.at > LastOfLeft(n) /\ c.at <= LastOfLeft(n) + NumLeaves(n.node.right)
             => \E l \in CallsOf(ev) :
                  l.at = LastOfLeft(n) /\ l.via = "next" /\ l.delivered # 0
      /\ \A l \in CallsOf(ev) :
           (l.at = LastOfLeft(n) /\ l.via = "next" /\ l.delivered = 0)
             => /\ ev.pc = "resolved"
                /\ ev.result = 0
                /\ \A c \in CallsOf(ev) : c.at <= LastOfLeft(n)

\* a || b && c where a succeeded: only a was invoked, the result is 0
C7_Witness ==
  \E ev \in AllEvals :
    /\ ev.ast.type = "AndCommand"
    /\ ev.ast.left.type = "OrCommand"
    /\ Len(ev.calls) = 1
    /\ ev.calls[1].via = "next"
    /\ ev.calls[1].delivered = 0
    /\ ev.pc = "resolved"
    /\ ev.result = 0

\* C8: an Arg whose expansions hold no space contributes exactly one argv
\* entry, the concatenation of its expansions: $HOME/my-app with HOME =
\* /home/sam is the one entry /home/sam/my-app.
C8_OneEntryPerArg ==
  \A ev \in AllEvals : \A c \in CallsOf(ev) :
    LET args == LeafAt(ev.ast, c.at).args
    IN (\A n \in DOMAIN args : countChars(Word(args[n]), " ") = 0)
         => c.argv = [n \in DOMAIN args |-> Word(args[n])]

\* C9: the external process is spawned by the evaluator only when argv[0]
\* names no builtin of the table; when it names one, that builtin is the one
\* invoked, and the evaluator spawns nothing for the command.
C9_BuiltinFirst ==
  \A ev \in AllEvals : \A c \in CallsOf(ev) :
    /\ c.spawnedBy = "eval" => (Len(c.argv) = 0 \/ c.argv[1] \notin ev.builtins)
    /\ (Len(c.argv) > 0 /\ c.argv[1] \in ev.builtins)
         => c.builtin = c.argv[1] /\ c.spawnedBy # "eval"

\* both ways were taken by one evaluation: a builtin was invoked for one
\* command and an external process spawned for another
C9_Witness ==
  \E ev \in AllEvals : \E c, d \in CallsOf(ev) :
    /\ c.builtin = S_exit /\ c.spawnedBy = "none" /\ c.via = "exit"
    /\ d.builtin = <<>> /\ d.spawnedBy = "eval" /\ d.via = "next"

\* C10: the code given to next for a spawned command is never null: it is 1
\* when the collaborator gave null, and the collaborator's code otherwise.
C10_NullBecomesOne ==
  \A ev \in AllEvals : \A c \in CallsOf(ev) :
    (c.spawnedBy # "none" /\ c.via = "next")
      => /\ c.delivered # null
         /\ c.raw = null => c.delivered = 1
         /\ c.raw # null => c.delivered = c.raw

\* a spawned process ended with null and next received 1
C10_Witness ==
  \E ev \in AllEvals : \E c \in CallsOf(ev) :
    c.spawnedBy = "eval" /\ c.via = "next" /\ c.raw = null /\ c.delivered = 1

\* the references of the commands of a tree to a variable that the session
\* environment does not define
UndefinedRefs(command) ==
  {n \in 1..NumLeaves(command) :
     \E a \in DOMAIN LeafAt(command, n).args :
       \E e \in DOMAIN LeafAt(command, n).args[a] :
         /\ LeafAt(command, n).args[a][e].type = "RefExpr"
         /\ LeafAt(command, n).args[a][e].name \notin DOMAIN ProcessEnv}

\* the argv of a command when each undefined reference stands for ''
RECURSIVE ArgvWithEmpty(_, _)
ArgvWithEmpty(exprs, argv) ==
  IF exprs = <<>> THEN argv
  ELSE ArgvWithEmpty(Tail(exprs),
         pushExpr(argv, Head(exprs),
                  IF Head(exprs).type = "TextExpr" THEN Head(exprs).text
                  ELSE IF Head(exprs).name \in DOMAIN ProcessEnv
                  THEN ProcessEnv[Head(exprs).name]
                  ELSE <<>>))

RECURSIVE Flatten(_)
Flatten(args) == IF args = <<>> THEN <<>> ELSE Head(args) \o Flatten(Tail(args))

\* C11: a reference to a variable that the session environment does not
\* define expands to the empty string and raises no error: the command that
\* holds it is dispatched with '' in the place of the reference.
C11_UndefinedIsEmpty ==
  \A ev \in AllEvals :
    /\ (ev.at \in UndefinedRefs(ev.ast) /\ ev.pc # "visit")
         => ev.err \notin {"Error", "TypeError"}
    /\ \A c \in CallsOf(ev) :
         c.at \in UndefinedRefs(ev.ast)
           => c.argv = ArgvWithEmpty(Flatten(LeafAt(ev.ast, c.at).args), <<>>)

\* ------------------------------------------------------ matchTaskName alone

MaxPatterns == 2   \* the most patterns given on the command line

N_watch == <<"w", "a", "t", "c", "h">>
N_rewatch == <<"r", "e">> \o N_watch
N_watch_tests == N_watch \o <<":", "t", "e", "s", "t", "s">>
N_watch_sources == N_watch \o <<":", "s", "o", "u", "r", "c", "e", "s">>
N_watch_tests_ci == N_watch_tests \o <<":", "c", "i">>
N_watch_test_star == N_watch \o <<":", "t", "e", "s", "t", "*">>
N_star_tests == <<"*", ":", "t", "e", "s", "t", "s">>
N_q_atch == <<"?", "a", "t", "c", "h">>
N_w_star == <<"w", "*">>

TaskNames ==
  {N_watch, N_rewatch, N_watch_tests, N_watch_sources, N_watch_tests_ci, N_a}

Patterns ==
  {N_watch, N_watch_test_star, N_star_tests, N_q_atch, N_w_star, N_a}

\* before the call matchTaskName(taskName, expected)
MatchInit ==
  /\ Idle
  /\ shell = NoShell
  /\ \E taskName \in TaskNames : \E expected \in Lists(Patterns, MaxPatterns) :
       matching = [pc |-> "call", taskName |-> taskName, expected |-> expected,
                   result |-> FALSE]
  /\ mux = <<>>
  /\ console = <<>>

\* matchTaskName(taskName, expected) returns
Match ==
  /\ matching.pc = "call"
  /\ matching' = [matching EXCEPT
                    !.pc = "returned",
                    !.result = matchTaskName(matching.taskName, matching.expected)]
  /\ UNCHANGED program
  /\ UNCHANGED <<shell, mux, console>>

MatchNext ==
  \/ Match

MatchSpec == MatchInit /\ [][MatchNext]_vars

\* ---------------------------------------------- PrefixTransformStream alone

MaxLen == 2   \* the most characters the first task's process writes

\* the bytes of the two-byte character U+00E9, that character, and U+FFFD,
\* which decoding puts in the place of a byte that is no character; any
\* other byte is the one-byte character of the same name
LeadByte == "0xC3"
ContinuationByte == "0xA9"
EAcute == "U+00E9"
Replacement == "U+FFFD"

\* the UTF-8 bytes of a text
RECURSIVE utf8(_)
utf8(text) ==
  IF text = <<>> THEN <<>>
  ELSE (IF Head(text) = EAcute THEN <<LeadByte, ContinuationByte>>
        ELSE <<Head(text)>>) \o utf8(Tail(text))

\* chunk.toString('utf8')
RECURSIVE toString(_)
toString(chunk) ==
  IF chunk = <<>> THEN <<>>
  ELSE IF Head(chunk) = LeadByte /\ Len(chunk) >= 2 /\ chunk[2] = ContinuationByte
  THEN <<EAcute>> \o toString(Tail(Tail(chunk)))
  ELSE IF Head(chunk) \in {LeadByte, ContinuationByte}
  THEN <<Replacement>> \o toString(Tail(chunk))
  ELSE <<Head(chunk)>> \o toString(Tail(chunk))

isNewLine(ch) == ch = "\n"

\* new PrefixTransformStream({ prefix })
PrefixTransformStream(prefix) == [prefix |-> prefix, atBlankLine |-> TRUE]

\* the loop of _transform over the characters of the chunk: [stream, out]
RECURSIVE transformLoop(_, _, _)
transformLoop(stream, chunk, out) ==
  IF chunk = <<>> THEN [stream |-> stream, out |-> out]
  ELSE transformLoop([stream EXCEPT !.atBlankLine = isNewLine(Head(chunk))],
                     Tail(chunk),
                     out \o (IF stream.atBlankLine THEN stream.prefix ELSE <<>>)
                         \o <<Head(chunk)>>)

\* _transform(chunk, 'buffer', callback): [stream, out], out being pushed
_transform(stream, chunk) == transformLoop(stream, toString(chunk), <<>>)

\* the prefix of the n-th task
Prefix(n) == IF n = 1 THEN <<"1", ">">> ELSE <<"2", ">">>

Characters == {"x", "\n", EAcute}

\* the process of a task: the bytes it has yet to write to its stdout, which
\* is piped through stream into the console
Piped(n, text) ==
  [stream |-> PrefixTransformStream(Prefix(n)), input |-> utf8(text),
   pending |-> utf8(text), pushed |-> <<>>]

\* two tasks were spawned with spawnWithPrefix
MuxInit ==
  /\ Idle
  /\ shell = NoShell
  /\ matching = NoMatching
  /\ \E text1 \in Lists(Characters, MaxLen) :
       \E text2 \in {<<>>, <<"y", "\n">>} :
         mux = <<Piped(1, text1), Piped(2, text2)>>
  /\ console = <<>>

\* the stdout of the process of task t delivers a chunk, the next n bytes
Write(t) ==
  /\ \E n \in 1..Len(mux[t].pending) :
     \E done \in {_transform(mux[t].stream, SubSeq(mux[t].pending, 1, n))} :
       /\ mux' = [mux EXCEPT ![t].stream = done.stream,
                             ![t].pending = SubSeq(@, n + 1, Len(@)),
                             ![t].pushed = Append(@, done.out)]
       /\ console' = Append(console, [by |-> t, text |-> done.out])
  /\ UNCHANGED program
  /\ UNCHANGED <<shell, matching>>

MuxNext ==
  \/ \E t \in DOMAIN mux : Write(t)

MuxSpec == MuxInit /\ [][MuxNext]_vars

\* --------------------------------------------------------- command texts

Blanks == {" ", "\t", "\r"}

\* the text is words of plain characters with whitespace between them,
\* starting with a word
PlainWords(text) ==
  /\ text # <<>>
  /\ text[1] \notin Blanks
  /\ \A i \in DOMAIN text : text[i] \notin {"\n", "$", "&", "|", "'", "\"", "\\"}

\* the words of a text, in source order
RECURSIVE WordsOf(_, _, _)
WordsOf(text, word, words) ==
  IF text = <<>> THEN IF word = <<>> THEN words ELSE Append(words, word)
  ELSE IF Head(text) \in Blanks
  THEN WordsOf(Tail(text), <<>>, IF word = <<>> THEN words ELSE Append(words, word))
  ELSE WordsOf(Tail(text), Append(word, Head(text)), words)

\* the length of the longest prefix of seq made of members of S
PrefixLen(seq, S) ==
  CHOOSE n \in 0..Len(seq) :
    /\ \A i \in 1..n : seq[i] \in S
    /\ n = Len(seq) \/ seq[n + 1] \notin S

\* the references and the runs of text of a word, in source order
RECURSIVE ElementsOf(_, _)
ElementsOf(word, elements) ==
  IF word = <<>> THEN elements
  ELSE IF Head(word) = "$"
  THEN With(PrefixLen(Tail(word), Lower \cup Upper \cup Digits), LAMBDA n :
         ElementsOf(SubSeq(word, n + 2, Len(word)),
                    Append(elements, RefExpr(SubSeq(word, 2, n + 1)))))
  ELSE With(PrefixLen(word, {ch \in Range(word) : ch # "$"}), LAMBDA n :
         ElementsOf(SubSeq(word, n + 1, Len(word)),
                    Append(elements, TextExpr(SubSeq(word, 1, n)))))

\* the Args of a text without operators: one Arg for each word
ArgsOf(text) ==
  With(WordsOf(text, <<>>, <<>>), LAMBDA words :
    [n \in 1..Len(words) |-> ElementsOf(words[n], <<>>)])

\* the places of a text where " && " or " || " starts
OperatorsIn(text) ==
  {p \in 1..(Len(text) - 3) :
     SubSeq(text, p, p + 3) \in {<<" ", "&", "&", " ">>, <<" ", "|", "|", " ">>}}

Max(S) == CHOOSE m \in S : \A n \in S : n <= m

\* the tree of a chain: the last operator applied to the tree of all that is
\* to its left and to the one command to its right
RECURSIVE TreeOf(_)
TreeOf(text) ==
  IF OperatorsIn(text) = {} THEN SpawnCommand(ArgsOf(text))
  ELSE With(Max(OperatorsIn(text)), LAMBDA p :
         BinaryCommand(IF text[p + 1] = "&" THEN "AndCommand" ELSE "OrCommand",
                       TreeOf(SubSeq(text, 1, p - 1)),
                       SpawnCommand(ArgsOf(SubSeq(text, p + 4, Len(text))))))

Parsed == shell.pc = "ready" /\ shell.parsed # <<>>

\* C12: a text of n plain words separated by whitespace parses to one
\* SpawnCommand with n Args, the k-th Arg being the one TextExpr whose text
\* is the k-th word.
C12_PlainWordsParse ==
  (Parsed /\ PlainWords(shell.input))
    => With(WordsOf(shell.input, <<>>, <<>>), LAMBDA words :
         shell.parsed[1] =
           [val |-> SpawnCommand([n \in 1..Len(words) |-> <<TextExpr(words[n])>>]),
            err |-> ""])

\* three words, separated by a tab and a space and by a carriage return
C12_Witness ==
  /\ Parsed
  /\ shell.input = <<"f", "\t", " ", "-", "x", "\r", "f">>
  /\ Len(shell.parsed[1].val.args) = 3

T_abcd ==
  <<"a", " ", "&", "&", " ", "b", " ", "c", " ", "|", "|", " ", "a", " ",
    "&", "&", " ", "b", " ", "c">>

\* C13: && and || have one precedence and associate to the left: a chain
\* parses to the tree whose root is its last operator, with all that is to
\* the left of it as left operand and the single command to the right of it
\* as right operand.
C13_LeftAssociative ==
  (Parsed /\ shell.input \in ChainTexts)
    => shell.parsed[1] = [val |-> TreeOf(shell.input), err |-> ""]

\* x && y || x && y, with x = a and y = b c, parsed to And(Or(And(x, y), x), y)
C13_Witness ==
  /\ Parsed
  /\ shell.input = T_abcd
  /\ \E x, y \in {SpawnCommand(ArgsOf(t)) : t \in {<<"a">>, <<"b", " ", "c">>}} :
       /\ x # y
       /\ shell.parsed[1].val = AndCommand(OrCommand(AndCommand(x, y), x), y)

\* C14: a reference and text that are adjacent form one Arg whose elements
\* are in source order; cp $HOME/my-app /app has three Args, the second
\* being the reference to HOME followed by the text /my-app.
C14_AdjacentFormOneArg ==
  (Parsed /\ shell.input \in RefTexts)
    => /\ shell.parsed[1] = [val |-> SpawnCommand(ArgsOf(shell.input)), err |-> ""]
       /\ shell.input = T_cp
            => /\ Len(shell.parsed[1].val.args) = 3
               /\ shell.parsed[1].val.args[2]
                    = <<RefExpr(<<"H", "O", "M", "E">>),
                        TextExpr(<<"/", "m", "y", "-", "a", "p", "p">>)>>

\* cp $HOME/my-app /app was parsed, its second Arg having two elements
C14_Witness ==
  /\ Parsed
  /\ shell.input = T_cp
  /\ Len(shell.parsed[1].val.args[2]) = 2

\* C15: once lex() has returned EndOfFile, the next call returns EndOfFile
\* too, throws nothing, and leaves the read offset and the character buffer
\* as they were.
C15_IdempotentAtEnd ==
  shell.pc = "ready"
    => \A k \in 1..(Len(shell.tokens) - 1) :
         shell.tokens[k].type = "EndOfFile"
           => /\ shell.tokens[k + 1].type = "EndOfFile"
              /\ shell.tokens[k + 1].err = ""
              /\ shell.tokens[k + 1].L.textOffset = shell.tokens[k].L.textOffset
              /\ shell.tokens[k + 1].L.charBuffer = shell.tokens[k].L.charBuffer

\* lex() was called twice more after it returned EndOfFile for a text that
\* ends in whitespace
C15_Witness ==
  /\ shell.pc = "ready"
  /\ shell.input = <<"a", " ">>
  /\ Len(shell.tokens) = 4
  /\ shell.tokens[2].type = "EndOfFile"
  /\ shell.tokens[4].type = "EndOfFile"

\* the first n of the segments of a name that ':' separates, as a text: the
\* name up to the n-th ':', all of it when it holds fewer
FirstSegments(name, n) ==
  With({p \in DOMAIN name : name[p] = ":"
                              /\ countChars(SubSeq(name, 1, p), ":") = n},
       LAMBDA at : IF at = {} THEN name ELSE SubSeq(name, 1, Max(at) - 1))

Matched(taskName, patterns) ==
  /\ matching.pc = "returned"
  /\ matching.taskName = taskName
  /\ matching.expected = patterns

\* C16: matchTaskName(name, patterns) is true iff patterns is empty or some
\* pattern with k ':' glob-matches the first k+1 segments of name; so watch
\* matches watch:tests and watch:sources and not rewatch, and watch:test*
\* matches watch:tests and not watch:sources.
C16_MatchesFirstSegments ==
  /\ matching.pc = "returned"
       => matching.result
            = (\/ matching.expected = <<>>
               \/ \E pattern \in Range(matching.expected) :
                    Minimatch(FirstSegments(matching.taskName,
                                            countChars(pattern, ":") + 1),
                              pattern))
  /\ Matched(N_watch_tests, <<N_watch>>) => matching.result
  /\ Matched(N_watch_sources, <<N_watch>>) => matching.result
  /\ Matched(N_rewatch, <<N_watch>>) => ~matching.result
  /\ Matched(N_watch_tests, <<N_watch_test_star>>) => matching.result
  /\ Matched(N_watch_sources, <<N_watch_test_star>>) => ~matching.result

\* watch:tests:ci was matched by the second of two patterns, watch:test*,
\* on its first two segments
C16_Witness ==
  /\ Matched(N_watch_tests_ci, <<N_a, N_watch_test_star>>)
  /\ matching.result

\* the text with the label before its first character and before every
\* character that follows a newline
RECURSIVE Labelled(_, _, _)
Labelled(text, label, atStart) ==
  IF text = <<>> THEN <<>>
  ELSE (IF atStart THEN label ELSE <<>>) \o <<Head(text)>>
         \o Labelled(Tail(text), label, Head(text) = "\n")

\* the text with the label taken out wherever Labelled puts it
RECURSIVE Unlabelled(_, _, _)
Unlabelled(text, label, atStart) ==
  IF text = <<>> THEN <<>>
  ELSE IF atStart /\ Len(text) > Len(label) /\ SubSeq(text, 1, Len(label)) = label
  THEN <<text[Len(label) + 1]>>
         \o Unlabelled(SubSeq(text, Len(label) + 2, Len(text)), label,
                       text[Len(label) + 1] = "\n")
  ELSE <<Head(text)>> \o Unlabelled(Tail(text), label, Head(text) = "\n")

\* a process wrote all it had to write
Written(t) == mux # <<>> /\ mux[t].pending = <<>>

\* C17: the output of one stream is its input with the label before the
\* first character of every line and nowhere else, so that taking the
\* labels out gives the input back.
C17_LabelOncePerLine ==
  \A t \in DOMAIN mux :
    Written(t)
      => /\ Flatten(mux[t].pushed)
              = Labelled(toString(mux[t].input), mux[t].stream.prefix, TRUE)
         /\ utf8(Unlabelled(Flatten(mux[t].pushed), mux[t].stream.prefix, TRUE))
              = mux[t].input

\* C18: however the input is cut into chunks, the outputs concatenated are
\* the output for the whole input delivered as one chunk.
C18_ChunkingInsensitive ==
  \A t \in DOMAIN mux :
    Written(t)
      => Flatten(mux[t].pushed)
           = _transform(PrefixTransformStream(mux[t].stream.prefix),
                        mux[t].input).out

\* the characters written to the console, each with the task it came from
RECURSIVE Merged(_)
Merged(pushes) ==
  IF pushes = <<>> THEN <<>>
  ELSE [i \in DOMAIN Head(pushes).text |-> [by |-> Head(pushes).by,
                                            ch |-> Head(pushes).text[i]]]
         \o Merged(Tail(pushes))

\* C19: in the merged stream every line carries one label and holds the
\* characters of one task only: the output of another task starts only
\* where a line has ended.
C19_LinesNeverMixed ==
  \A i \in 1..(Len(Merged(console)) - 1) :
    Merged(console)[i].by # Merged(console)[i + 1].by
      => Merged(console)[i].ch = "\n"

\* C20: a call made by in-process re-entry has delegation disabled: it is
\* never delegated to the local installation.
C20_ReentryNeverDelegates ==
  \A i \in DOMAIN invs : invs[i].parent # <<>> => ~invs[i].delegated

Nested == {i \in DOMAIN invs : invs[i].parent # <<>>}

\* the task whose command made a nested invocation
TaskOf(i) == invs[invs[i].parent[1]].tasksToRun[invs[i].parent[2]]

\* C22: a command that names the tool itself spawns no process: the
\* orchestrator is re-entered with the task's working directory as the
\* directory of the nested run.
C22_ReentryInTaskDirectory ==
  /\ \A ev \in AllEvals : \A c \in CallsOf(ev) :
       c.builtin = S_bake => c.spawnedBy = "none"
  /\ \A i \in Nested : invs[i].cwd = TaskOf(i).cwd

\* the filters of a run: bake stands for an empty list
Filters(names) == IF names = <<>> THEN <<S_bake>> ELSE names

\* the filters of the nested invocations that the evaluation of task t of
\* invocation i made
FiltersOf(i, t) ==
  {Filters(invs[j].expectedTaskNames) : j \in {j \in Nested : invs[j].parent = <<i, t>>}}

\* C23: the npm builtin routes by sub-command: npm run X... re-enters the
\* orchestrator with the filters X..., npm test and npm start re-enter it
\* with the sub-command as filter, and any other sub-command is spawned once
\* with the argv unchanged, by the builtin itself.
C23_NpmRoutes ==
  \A i \in DOMAIN invs : \A t \in DOMAIN invs[i].evals :
    \A c \in CallsOf(invs[i].evals[t]) :
      c.builtin = S_npm
        => IF Len(c.argv) >= 2 /\ c.argv[2] = S_run
           THEN /\ c.spawnedBy = "none"
                /\ Filters(SubSeq(c.argv, 3, Len(c.argv))) \in FiltersOf(i, t)
           ELSE IF Len(c.argv) >= 2 /\ c.argv[2] \in {S_test, S_start}
           THEN /\ c.spawnedBy = "none"
                /\ SubSeq(c.argv, 2, Len(c.argv)) \in FiltersOf(i, t)
           ELSE /\ c.spawnedBy = "builtin"
                /\ FiltersOf(i, t) = {}
                /\ Cardinality({n \in DOMAIN invs[i].evals[t].calls :
                                  invs[i].evals[t].calls[n].argv = c.argv}) = 1

\* npm run a was caught: the nested run selected a, and its exit code was
\* passed to next
C23_Witness ==
  \E i \in DOMAIN invs : \E t \in DOMAIN invs[i].evals :
    \E c \in CallsOf(invs[i].evals[t]) : \E j \in Nested :
      /\ c.argv = <<S_npm, S_run, N_a>>
      /\ c.via = "next"
      /\ invs[j].parent = <<i, t>>
      /\ invs[j].pc = "done"
      /\ Len(invs[j].tasksToRun) = 1
      /\ invs[j].tasksToRun[1].name = N_a
      /\ c.delivered = invs[j].accepted

\* the scripts of the descriptor of a directory, as tasks of that directory
ScriptsOf(dir) ==
  IF dir \in DOMAIN files /\ files[dir].scripts.kind = "object"
  THEN {TaskInfo(e.name, dir, e.shellCommand) : e \in Range(files[dir].scripts.entries)}
  ELSE {}

\* the invocations whose bake() has read the descriptors
Discovered ==
  {i \in DOMAIN invs : invs[i].packageDir # <<>>
                         /\ invs[i].pc \in {"loaded", "running", "done"}}

\* C24: when the root descriptor lists workspaces, the tasks discovered are
\* the scripts of the root project together with the scripts of every
\* listed sub-project, each with the directory of its project.
C24_WorkspacesMerged ==
  \A i \in Discovered :
    files[invs[i].packageDir].workspaces.defined
      => Range(invs[i].tasks)
           = ScriptsOf(invs[i].packageDir)
               \cup UNION {ScriptsOf(pathJoin(invs[i].packageDir, dir)) :
                             dir \in Range(files[invs[i].packageDir].workspaces.dirs)}

\* the directories whose descriptor bake() reads the scripts of
ReadDirs(i) ==
  IF files[invs[i].packageDir].workspaces.defined
  THEN {pathJoin(invs[i].packageDir, dir) :
          dir \in Range(files[invs[i].packageDir].workspaces.dirs)}
  ELSE {invs[i].packageDir}

\* the invocations whose bake() found a descriptor and read, or failed to
\* read, the scripts
Read == {i \in DOMAIN invs : invs[i].packageDir # <<>> /\ invs[i].pc # "discover"}

\* C25: scripts that are present and not a mapping are reported with a
\* message of their own, and the invocation completes with 1 without
\* running a task.
C25_NonMappingScriptsIsError ==
  \A i \in Read :
    (/\ ReadDirs(i) \subseteq DOMAIN files
     /\ \E dir \in ReadDirs(i) : files[dir].scripts.kind \notin {"undefined", "object"})
      => /\ invs[i].pc = "done"
         /\ invs[i].result = 1
         /\ invs[i].accepted = 1
         /\ invs[i].message = "CLIError"
         /\ invs[i].evals = <<>>

\* the invocations that returned because no task was selected
NothingSelected ==
  {i \in DOMAIN invs : /\ invs[i].pc = "done"
                       /\ invs[i].message \in {"no tasks were defined", "no tasks matched"}}

\* C26: "no tasks were defined" is reported whenever no task was discovered,
\* "no tasks matched" only when a task was discovered and none matched; both
\* return 1 and run nothing.
C26_NoTasksDistinguished ==
  \A i \in NothingSelected :
    /\ invs[i].message = "no tasks were defined" <=> invs[i].tasks = <<>>
    /\ invs[i].result = 1
    /\ invs[i].tasksToRun = <<>>
    /\ invs[i].evals = <<>>

\* C27: an evaluation whose spawn collaborator rejected settles as rejected;
\* it is never left pending.
C27_SpawnFailureRejects ==
  \A ev \in AllEvals : ev.err = "SpawnError" => ev.pc = "rejected"

\* the evaluations stopped by a lex error, a parse error or a spawn failure
Failed(ev) == ev.err \in {"LexError", "ParseError", "SpawnError"}

Settled(ev) == ev.pc \in {"resolved", "rejected"}

\* C28: a lex error, a parse error or a spawn failure in one selected task
\* leaves the invocation running until its sibling tasks have completed, and
\* the invocation then returns 1.
C28_FailureFatalToTaskOnly ==
  \A i \in DOMAIN invs :
    (\E t \in DOMAIN invs[i].evals : Failed(invs[i].evals[t]))
      => \/ invs[i].pc = "running"
         \/ /\ invs[i].pc = "done"
            /\ invs[i].result = 1
            /\ \A t \in DOMAIN invs[i].evals : Settled(invs[i].evals[t])

\* C29: within one evaluation the commands are invoked in source order, from
\* left to right, and a command is invoked only once the exit code of the
\* command invoked before it has been delivered to next: no call but the
\* last one is ever in flight.
C29_LeftToRightOneAtATime ==
  \A ev \in AllEvals :
    \A n \in 1..(Len(ev.calls) - 1) :
      /\ ev.calls[n].at < ev.calls[n + 1].at
      /\ ev.calls[n].via = "next"
      /\ ev.calls[n].delivered # Pending

C29_Witness ==
  \E ev \in AllEvals :
    /\ ev.ast.type = "AndCommand"
    /\ ev.ast.left.type = "OrCommand"
    /\ Len(ev.calls) = 3
    /\ ev.calls[1].delivered = 1
    /\ ev.calls[2].delivered = 0
    /\ ev.calls[3].delivered = Pending
    /\ ev.pc = "spawn"

\* the last command an evaluation invoked
LastCall(ev) == ev.calls[Len(ev.calls)]

\* C30: a resolved evaluation holds the code the last command it invoked
\* delivered, a command that called exit is the last one invoked, and from
\* then on neither the result nor the history of the evaluation changes.
C30_FirstContinuationWins ==
  [][/\ \A i \in DOMAIN invs : \A t \in DOMAIN invs[i].evals :
          invs[i].evals[t].pc = "resolved"
            => /\ t \in DOMAIN invs'[i].evals
               /\ invs'[i].evals[t] = invs[i].evals[t]
     /\ \A i \in DOMAIN invs' : \A t \in DOMAIN invs'[i].evals :
          /\ invs'[i].evals[t].pc = "resolved"
               => /\ invs'[i].evals[t].calls # <<>>
                  /\ invs'[i].evals[t].result = LastCall(invs'[i].evals[t]).delivered
          /\ \A n \in DOMAIN invs'[i].evals[t].calls :
               invs'[i].evals[t].calls[n].via = "exit"
                 => /\ n = Len(invs'[i].evals[t].calls)
                    /\ invs'[i].evals[t].pc = "resolved"]_vars

C30_Witness ==
  \E i \in DOMAIN invs : \E t \in DOMAIN invs[i].evals :
    /\ invs[i].pc = "done"
    /\ invs[i].evals[t].ast.type \in {"AndCommand", "OrCommand"}
    /\ invs[i].evals[t].ast.left.type = "SpawnCommand"
    /\ invs[i].evals[t].pc = "resolved"
    /\ Len(invs[i].evals[t].calls) = 1
    /\ LastCall(invs[i].evals[t]).via = "exit"
    /\ invs[i].evals[t].result = 0

\* the text with every operator set between two single blanks
RECURSIVE Spaced(_)
Spaced(text) ==
  IF text = <<>> THEN <<>>
  ELSE IF Len(text) >= 2 /\ SubSeq(text, 1, 2) \in {<<"&", "&">>, <<"|", "|">>}
  THEN <<" ">> \o SubSeq(text, 1, 2) \o <<" ">>
         \o Spaced(SubSeq(text, IF Len(text) >= 3 /\ text[3] = " " THEN 4 ELSE 3,
                          Len(text)))
  ELSE <<Head(text)>> \o Spaced(Tail(text))

\* C31: a chain whose operators directly follow the word before them parses
\* without error to the tree of the same chain written with blanks around
\* the operators: `a&&b` and `a&& b` give And(Spawn[a], Spawn[b]).
C31_GluedOperatorParses ==
  (Parsed /\ shell.input \in GluedTexts)
    => shell.parsed[1] = [val |-> TreeOf(Spaced(shell.input)), err |-> ""]

\* the place of the first backslash of a text
Backslash(text) == CHOOSE p \in DOMAIN text : text[p] = "\\" /\ \A q \in 1..(p - 1) : text[q] # "\\"

\* C32: the token of a word that starts with an escaped character is an
\* Identifier whose text is that character, once, and the rest of the word;
\* an escaped `$` gives no Dollar token, after a blank or not.
C32_EscapedCharOnce ==
  shell.input \in EscapeTexts
    => \A n \in DOMAIN shell.tokens :
         /\ shell.tokens[n].type # "Dollar"
         /\ n = Backslash(shell.input)
              => /\ shell.tokens[n].type = "Identifier"
                 /\ shell.tokens[n].value =
                      SubSeq(shell.input, Backslash(shell.input) + 1, Len(shell.input))

\* the text is made of plain characters, whitespace and newlines
PlainLines(text) ==
  \A i \in DOMAIN text : text[i] \notin {"$", "&", "|", "'", "\"", "\\"}

\* the first place after the run of whitespace that starts at p
RunEnd(text, p) == p + PrefixLen(SubSeq(text, p, Len(text)), Blanks)

\* the places where a run of whitespace starts that has a token before it
\* and a token other than NewLine and EndOfFile after it
SeparatingRuns(text) ==
  {p \in DOMAIN text :
     /\ text[p] \in Blanks
     /\ p > 1
     /\ text[p - 1] \notin Blanks
     /\ RunEnd(text, p) <= Len(text)
     /\ text[RunEnd(text, p)] # "\n"}

\* the text was lexed to its end
Lexed ==
  /\ shell.pc = "ready"
  /\ shell.tokens # <<>>
  /\ shell.tokens[Len(shell.tokens)].type = "EndOfFile"

\* C33: the lexer emits one Blank for each run of whitespace between two
\* tokens and none for a run at the start of the text, before a NewLine or
\* at the end of the text.
C33_OneBlankPerSeparatingRun ==
  (Lexed /\ PlainLines(shell.input))
    => Cardinality({n \in DOMAIN shell.tokens : shell.tokens[n].type = "Blank"})
         = Cardinality(SeparatingRuns(shell.input))

\* the Args of every SpawnCommand of a tree
RECURSIVE ArgsIn(_)
ArgsIn(command) ==
  IF command.type = "SpawnCommand" THEN Range(command.args)
  ELSE IF command.type \in {"AndCommand", "OrCommand"}
  THEN ArgsIn(command.left) \cup ArgsIn(command.right)
  ELSE {}

\* C34: every Arg of every SpawnCommand of a parsed command text holds at
\* least one expression, whitespace at the start of the text or not.
C34_ArgsNonEmpty ==
  (Parsed /\ shell.parsed[1].err = "")
    => \A arg \in ArgsIn(shell.parsed[1].val) : arg # <<>>

\* no call of lex() before the n-th one threw
NoErrorBefore(n) == \A m \in 1..(n - 1) : shell.tokens[m].type # "LexError"

\* C35: a `&` not followed by `&`, a `|` not followed by `|`, a `$` not
\* followed by a letter or `_`, and a backslash that ends the text raise
\* LexError: after the word before it, if there is one, lex() returns no
\* token but throws.
C35_MalformedRaisesLexError ==
  shell.input \in MalformedTexts
    => \A n \in DOMAIN shell.tokens :
         NoErrorBefore(n)
           => IF n = 1 /\ shell.input[1] = "a"
              THEN /\ shell.tokens[n].type = "Identifier"
                   /\ shell.tokens[n].value = <<"a">>
              ELSE shell.tokens[n].type = "LexError"

\* the places of the newlines of a text that no backslash precedes
UnescapedNewLines(text) ==
  {p \in DOMAIN text : text[p] = "\n" /\ (p = 1 \/ text[p - 1] # "\\")}

\* the text holds no operator, reference or quote
PlainOrEscaped(text) ==
  \A i \in DOMAIN text : text[i] \notin {"$", "&", "|", "'", "\""}

\* C36: a command text that holds a newline no backslash precedes is
\* rejected, no tree being returned: with ParseError for the NewLine token
\* left over, unless the lexer threw before.
C36_NewLineRejected ==
  (Parsed /\ PlainOrEscaped(shell.input) /\ UnescapedNewLines(shell.input) # {})
    => shell.parsed[1].err \in {"ParseError", "LexError"}

\* the types and the values of the tokens lexed so far
TokensLexed == [n \in DOMAIN shell.tokens |->
                  [type |-> shell.tokens[n].type, value |-> shell.tokens[n].value]]

\* C37: a newline that a backslash precedes gives no NewLine token, and
\* `a \<newline> b` lexes to Identifier a, Blank, Identifier b, EndOfFile,
\* as `a b` does.
C37_EscapedNewLineSwallowed ==
  /\ UnescapedNewLines(shell.input) = {}
       => \A n \in DOMAIN shell.tokens : shell.tokens[n].type # "NewLine"
  /\ (shell.input = <<"a", " ", "\\", "\n", " ", "b">> /\ Len(shell.tokens) = 4)
       => TokensLexed = <<[type |-> "Identifier", value |-> <<"a">>],
                          [type |-> "Blank", value |-> <<>>],
                          [type |-> "Identifier", value |-> <<"b">>],
                          [type |-> "EndOfFile", value |-> <<>>]>>

\* C38: the environment and the working directory of a session are those it
\* was created with, the task's directory and process.env, whatever the
\* evaluation did: expand references, call builtins, re-enter bake.
C38_SessionNeverModified ==
  \A i \in DOMAIN invs : \A t \in DOMAIN invs[i].evals :
    /\ invs[i].evals[t].cwd = invs[i].tasksToRun[t].cwd
    /\ invs[i].evals[t].env = ProcessEnv

C38_Witness ==
  \E i \in DOMAIN invs : \E t \in DOMAIN invs[i].evals :
    /\ invs[i].evals[t].pc = "resolved"
    /\ \E c \in CallsOf(invs[i].evals[t]) :
         c.builtin = S_bake /\ c.delivered # Pending
    /\ invs[i].evals[t].env = ProcessEnv
    /\ invs[i].evals[t].cwd = W

\* C39: the invocation the program was started with completes with an exit
\* code, a script that runs bake with a filter that selects that script
\* included, unless a promise was rejected with no handler.
C39_EveryInvocationCompletes ==
  <>(unhandled \/ (invs # <<>> /\ invs[1].accepted # Pending))

\* the command re-entered bake instead of spawning a process
Reentered(c) == c.builtin \in {S_bake, S_npm} /\ c.spawnedBy = "none"

\* C40: a command that re-entered bake receives the code of the nested run
\* through next, whatever the nested tasks did, exit included: the enclosing
\* evaluation is not ended by it and goes on with the command after &&.
C40_NestedExitIsolated ==
  \A i \in DOMAIN invs : \A t \in DOMAIN invs[i].evals :
    \A n \in DOMAIN invs[i].evals[t].calls :
      (Reentered(invs[i].evals[t].calls[n]) /\ invs[i].evals[t].calls[n].delivered # Pending)
        => /\ invs[i].evals[t].calls[n].via = "next"
           /\ \E j \in Nested :
                /\ invs[j].parent = <<i, t>>
                /\ invs[j].accepted = invs[i].evals[t].calls[n].delivered
           /\ (/\ invs[i].evals[t].ast.type = "AndCommand"
               /\ invs[i].evals[t].calls[n].at = 1
               /\ invs[i].evals[t].calls[n].delivered = 0
               /\ invs[i].evals[t].pc = "resolved")
                => Len(invs[i].evals[t].calls) > n

C40_Witness ==
  \E i \in DOMAIN invs : \E t \in DOMAIN invs[i].evals : \E j \in Nested :
    /\ invs[j].parent = <<i, t>>
    /\ invs[j].pc = "done"
    /\ \E u \in DOMAIN invs[j].evals :
         /\ invs[j].evals[u].pc = "resolved"
         /\ LastCall(invs[j].evals[u]).via = "exit"
    /\ invs[i].evals[t].pc = "resolved"
    /\ Len(invs[i].evals[t].calls) = 2
    /\ Reentered(invs[i].evals[t].calls[1])
    /\ invs[i].evals[t].calls[1].delivered = invs[j].accepted
    /\ invs[i].evals[t].calls[2].spawnedBy = "eval"
    /\ invs[i].evals[t].calls[2].delivered = invs[i].evals[t].result

====
